---- MODULE Spec2Model ----
(***************************************************************************)
(* Cost model of the IoT network-selection system                          *)
(* (app/core/decision_logic.py) over the data types of                     *)
(* app/models/schemas.py.                                                  *)
(*                                                                         *)
(* Number representation.  The Python code computes on floats.  Here every *)
(* float quantity with a unit (bandwidth in Mbps, energies in mJ/mW, the   *)
(* QoS penalty) is a fixed-point integer counting tenths, latency is the   *)
(* integer number of ms of the schema, the task weights are integers       *)
(* counting tenths, and a total cost (weight * quantity) therefore counts  *)
(* hundredths.  Fixed(n) is the fixed-point form of the whole number n.    *)
(* The float +infinity, which the code uses as the initial minimum and     *)
(* which pydantic's gt=0 accepts as an energy value, is the value Inf with *)
(* saturating arithmetic (FloatAdd, FloatMul).                             *)
(***************************************************************************)
EXTENDS Integers, Naturals, Sequences, FiniteSets, TLC

VARIABLES
    fn,                  \* the function the caller has invoked, "none" between calls
    task,                \* argument: the task
    available_networks,  \* argument of select_best_network: list of NetworkState
    network_configs,     \* argument of select_best_network: name -> NetworkConfig
    network_state,       \* argument of the scoring functions: a NetworkState
    network_config,      \* argument of the scoring functions: a NetworkConfig
    result,              \* what the call returned or raised
    request,             \* the body of the HTTP request a src/api.py handler answers
    threads,             \* the worker threads that run the handlers of app/main.py
    simulation_engine,   \* the SimulationEngine object (NoEngine before construction)
    call,                \* the last method called on the engine and its argument
    returned,            \* what that method returned
    results,             \* the list the caller holds from its last run_multiple_steps
    device_state,        \* what the caller holds from its first run_simulation_step
    steps_taken,         \* history: steps run since construction or the last reset
    start_position       \* history: the position at construction or the last reset

\* the variables of the cost-model calls
cost_vars == <<fn, task, available_networks, network_configs, network_state,
               network_config, result>>

\* the variables of the simulator
sim_vars == <<simulation_engine, call, returned, results, device_state,
              steps_taken, start_position>>

\* the variables of the HTTP handlers
http_vars == <<request, threads>>

vars == <<fn, task, available_networks, network_configs, network_state,
          network_config, result, request, threads, simulation_engine, call,
          returned, results, device_state, steps_taken, start_position>>

----------------------------------------------------------------------------
(* Bounds of the explored inputs *)

\* longest candidate list passed to select_best_network
MaxCandidates == 3
\* bandwidths explored by the scoring calls: 0.1 Mbps and k * 0.5 Mbps, k <= this
MaxBandwidthSteps == 21
\* latencies explored by the scoring calls: 5 ms and k * 25 ms, k <= this
MaxLatencySteps == 52
\* the step counter is explored up to this value (past both phase changes)
MaxSimStep == 202
\* with run_multiple_steps in play the step counter is explored up to this value
MaxBulkStep == 3
\* largest num_steps passed to run_multiple_steps
MaxNumSteps == 2
\* requests a worker thread answers
MaxServed == 2
\* distances explored by the calls of _calculate_qos_by_distance: 5 * k map
\* units, k <= this (past the longest range, 500)
MaxDistanceSteps == 102

----------------------------------------------------------------------------
(* Numbers *)

\* float('inf'): larger than every finite value of the model
Inf == 1000000000

\* a whole number as a one-decimal fixed-point value
Fixed(n) == n * 10

\* float addition on the values of the model (x + inf = inf)
FloatAdd(a, b) == IF a >= Inf \/ b >= Inf THEN Inf ELSE a + b

\* float multiplication on the values of the model; the code only ever
\* multiplies strictly positive factors with an energy, so 0 * inf (NaN)
\* does not arise
FloatMul(a, b) == IF a >= Inf \/ b >= Inf THEN Inf ELSE a * b

----------------------------------------------------------------------------
(* schemas.py *)

TaskState == {"IDLE_MONITORING", "DATA_BURST_ALERT", "VIDEO_STREAMING"}

\* a value the type hint allows at run time but the enum does not contain
UnknownTask == "UNKNOWN_TASK"

\* NetworkState(name, bandwidth > 0, latency > 0, is_available)
NetworkState(name, bandwidth, latency, is_available) ==
    [name |-> name, bandwidth |-> bandwidth, latency |-> latency,
     is_available |-> is_available]

\* NetworkConfig(name, energy_tx > 0, energy_idle > 0, energy_wakeup >= 0)
NetworkConfig(name, energy_tx, energy_idle, energy_wakeup) ==
    [name |-> name, energy_tx |-> energy_tx, energy_idle |-> energy_idle,
     energy_wakeup |-> energy_wakeup]

ValidNetworkConfig(c) ==
    c.energy_tx > 0 /\ c.energy_idle > 0 /\ c.energy_wakeup >= 0

----------------------------------------------------------------------------
(* decision_logic.py: the tables *)

\* faulty variant: the streaming pair was retuned on one side only and no
\* longer sums to 1.0
TASK_WEIGHTS_unnormalised ==
    [t \in TaskState |->
        CASE t = "IDLE_MONITORING"  -> [w_energy |-> 8, w_qos |-> 2]
          [] t = "DATA_BURST_ALERT" -> [w_energy |-> 3, w_qos |-> 7]
          [] t = "VIDEO_STREAMING"  -> [w_energy |-> 4, w_qos |-> 7]]

\* weights in tenths
TASK_WEIGHTS ==
    [t \in TaskState |->
        CASE t = "IDLE_MONITORING"  -> [w_energy |-> 8, w_qos |-> 2]
          [] t = "DATA_BURST_ALERT" -> [w_energy |-> 3, w_qos |-> 7]
          [] t = "VIDEO_STREAMING"  -> [w_energy |-> 4, w_qos |-> 6]]

\* min_bandwidth in tenths of Mbps, max_latency in ms
QOS_REQUIREMENTS ==
    [t \in TaskState |->
        CASE t = "IDLE_MONITORING"  ->
                [min_bandwidth |-> 1, max_latency |-> 1000,
                 must_be_available |-> TRUE]
          [] t = "DATA_BURST_ALERT" ->
                [min_bandwidth |-> 50, max_latency |-> 100,
                 must_be_available |-> TRUE]
          [] t = "VIDEO_STREAMING"  ->
                [min_bandwidth |-> 100, max_latency |-> 200,
                 must_be_available |-> TRUE]]

\* estimated payload in KB
data_size_estimates ==
    [t \in TaskState |->
        CASE t = "IDLE_MONITORING"  -> 1
          [] t = "DATA_BURST_ALERT" -> 50
          [] t = "VIDEO_STREAMING"  -> 1000]

----------------------------------------------------------------------------
(* decision_logic.py: the functions *)

\* a raised ValueError, told apart by its message
Raise(error) == [error |-> error, value |-> 0]

\* a returned float
Return(value) == [error |-> "none", value |-> value]

\* faulty variant: the wake-up energy is charged only when the network is
\* not yet available, so the energy depends on the network state
calculate_energy_cost_by_state(config, state, t) ==
    LET base_energy == config.energy_idle
        estimated_data_kb ==
            IF t \in DOMAIN data_size_estimates
            THEN data_size_estimates[t] ELSE 10
        transmission_energy == FloatMul(estimated_data_kb, config.energy_tx)
        wakeup_energy == IF state.is_available THEN 0 ELSE config.energy_wakeup
    IN  FloatAdd(FloatAdd(base_energy, transmission_energy), wakeup_energy)

\* faulty variant: the wake-up energy is subtracted instead of added
calculate_energy_cost_minus_wakeup(config, state, t) ==
    LET base_energy == config.energy_idle
        estimated_data_kb ==
            IF t \in DOMAIN data_size_estimates
            THEN data_size_estimates[t] ELSE 10
        transmission_energy == FloatMul(estimated_data_kb, config.energy_tx)
        wakeup_energy == config.energy_wakeup
    IN  FloatAdd(FloatAdd(base_energy, transmission_energy), 0 - wakeup_energy)

calculate_energy_cost(config, state, t) ==
    LET base_energy == config.energy_idle
        estimated_data_kb ==
            IF t \in DOMAIN data_size_estimates
            THEN data_size_estimates[t] ELSE 10
        transmission_energy == FloatMul(estimated_data_kb, config.energy_tx)
        wakeup_energy == config.energy_wakeup
    IN  FloatAdd(FloatAdd(base_energy, transmission_energy), wakeup_energy)

\* faulty variant: the availability gate is missing
calculate_qos_penalty_ungated(state, t) ==
    IF t \notin DOMAIN QOS_REQUIREMENTS
    THEN 0
    ELSE
        LET requirements == QOS_REQUIREMENTS[t]
            bandwidth_penalty ==
                IF state.bandwidth < requirements.min_bandwidth
                THEN (requirements.min_bandwidth - state.bandwidth) * 50
                ELSE 0
            latency_penalty ==
                IF state.latency > requirements.max_latency
                THEN Fixed(state.latency - requirements.max_latency) * 2
                ELSE 0
            penalty == bandwidth_penalty + latency_penalty
        IN  IF penalty > Fixed(500) THEN Fixed(1000) ELSE penalty

\* faulty variant: the accumulated penalty is returned without the clamp
calculate_qos_penalty_unclamped(state, t) ==
    IF t \notin DOMAIN QOS_REQUIREMENTS
    THEN 0
    ELSE
        LET requirements == QOS_REQUIREMENTS[t]
            bandwidth_penalty ==
                IF state.bandwidth < requirements.min_bandwidth
                THEN (requirements.min_bandwidth - state.bandwidth) * 50
                ELSE 0
            latency_penalty ==
                IF state.latency > requirements.max_latency
                THEN Fixed(state.latency - requirements.max_latency) * 2
                ELSE 0
            penalty == bandwidth_penalty + latency_penalty
        IN  IF requirements.must_be_available /\ ~state.is_available
            THEN Fixed(1000)
            ELSE penalty

\* faulty variant: the clamp fires at 500 already (>= for >)
calculate_qos_penalty_clamp_at_500(state, t) ==
    IF t \notin DOMAIN QOS_REQUIREMENTS
    THEN 0
    ELSE
        LET requirements == QOS_REQUIREMENTS[t]
            bandwidth_penalty ==
                IF state.bandwidth < requirements.min_bandwidth
                THEN (requirements.min_bandwidth - state.bandwidth) * 50
                ELSE 0
            latency_penalty ==
                IF state.latency > requirements.max_latency
                THEN Fixed(state.latency - requirements.max_latency) * 2
                ELSE 0
            penalty == bandwidth_penalty + latency_penalty
        IN  IF requirements.must_be_available /\ ~state.is_available
            THEN Fixed(1000)
            ELSE IF penalty >= Fixed(500) THEN Fixed(1000) ELSE penalty

\* faulty variant: a penalty above 500 is replaced by 100.0 (a dropped
\* zero), so a worse network can score below a better one
calculate_qos_penalty_low_clamp(state, t) ==
    IF t \notin DOMAIN QOS_REQUIREMENTS
    THEN 0
    ELSE
        LET requirements == QOS_REQUIREMENTS[t]
            bandwidth_penalty ==
                IF state.bandwidth < requirements.min_bandwidth
                THEN (requirements.min_bandwidth - state.bandwidth) * 50
                ELSE 0
            latency_penalty ==
                IF state.latency > requirements.max_latency
                THEN Fixed(state.latency - requirements.max_latency) * 2
                ELSE 0
            penalty == bandwidth_penalty + latency_penalty
        IN  IF requirements.must_be_available /\ ~state.is_available
            THEN Fixed(1000)
            ELSE IF penalty > Fixed(500) THEN Fixed(100) ELSE penalty

calculate_qos_penalty(state, t) ==
    IF t \notin DOMAIN QOS_REQUIREMENTS
    THEN 0
    ELSE
        LET requirements == QOS_REQUIREMENTS[t]
            bandwidth_penalty ==
                IF state.bandwidth < requirements.min_bandwidth
                THEN (requirements.min_bandwidth - state.bandwidth) * 50
                ELSE 0
            latency_penalty ==
                IF state.latency > requirements.max_latency
                THEN Fixed(state.latency - requirements.max_latency) * 2
                ELSE 0
            penalty == bandwidth_penalty + latency_penalty
        IN  IF requirements.must_be_available /\ ~state.is_available
            THEN Fixed(1000)
            ELSE IF penalty > Fixed(500) THEN Fixed(1000) ELSE penalty

\* faulty variant: the two weights are applied to the wrong terms
calculate_cost_swapped_weights(state, config, t) ==
    IF t \notin DOMAIN TASK_WEIGHTS
    THEN Raise("InvalidTask")
    ELSE
        LET weights == TASK_WEIGHTS[t]
            energy_cost == calculate_energy_cost(config, state, t)
            qos_penalty == calculate_qos_penalty(state, t)
        IN  Return(FloatAdd(FloatMul(weights.w_qos, energy_cost),
                            weights.w_energy * qos_penalty))

\* faulty variant: a task without a weight entry is scored with even
\* weights instead of being rejected
calculate_cost_default_weights(state, config, t) ==
    LET weights == IF t \in DOMAIN TASK_WEIGHTS THEN TASK_WEIGHTS[t]
                   ELSE [w_energy |-> 5, w_qos |-> 5]
        energy_cost == calculate_energy_cost(config, state, t)
        qos_penalty == calculate_qos_penalty(state, t)
    IN  Return(FloatAdd(FloatMul(weights.w_energy, energy_cost),
                        weights.w_qos * qos_penalty))

calculate_cost(state, config, t) ==
    IF t \notin DOMAIN TASK_WEIGHTS
    THEN Raise("InvalidTask")
    ELSE
        LET weights == TASK_WEIGHTS[t]
            energy_cost == calculate_energy_cost(config, state, t)
            qos_penalty == calculate_qos_penalty(state, t)
        IN  Return(FloatAdd(FloatMul(weights.w_energy, energy_cost),
                            weights.w_qos * qos_penalty))

\* best_network = None
NoNetwork == NetworkState("", 0, 0, FALSE)

\* select_best_network raising a ValueError
RaiseSelect(error) ==
    [error |-> error, network |-> NoNetwork, cost |-> 0, index |-> 0]

\* select_best_network returning (best_network, min_cost); index is the
\* position of best_network in the candidate list (the object's identity)
ReturnSelect(network, cost, index) ==
    [error |-> "none", network |-> network, cost |-> cost, index |-> index]

\* faulty variant of the loop: a candidate replaces the best one on an equal
\* cost too (<= for <), so the last of a tie wins
RECURSIVE select_loop_last_wins(_, _, _, _, _, _)
select_loop_last_wins(networks, configs, t, i, best_index, min_cost) ==
    IF i > Len(networks)
    THEN IF best_index = 0
         THEN RaiseSelect("NoMatch")
         ELSE ReturnSelect(networks[best_index], min_cost, best_index)
    ELSE
        LET network == networks[i]
        IN  IF network.name \notin DOMAIN configs
            THEN select_loop_last_wins(networks, configs, t, i + 1,
                                       best_index, min_cost)
            ELSE
                LET cost == calculate_cost(network, configs[network.name], t)
                IN  IF cost.error # "none"
                    THEN RaiseSelect(cost.error)
                    ELSE IF cost.value <= min_cost
                    THEN select_loop_last_wins(networks, configs, t, i + 1,
                                               i, cost.value)
                    ELSE select_loop_last_wins(networks, configs, t, i + 1,
                                               best_index, min_cost)

\* faulty variant of the loop: a candidate without a config ends the
\* selection with the no-match error instead of being skipped
RECURSIVE select_loop_miss_is_fatal(_, _, _, _, _, _)
select_loop_miss_is_fatal(networks, configs, t, i, best_index, min_cost) ==
    IF i > Len(networks)
    THEN IF best_index = 0
         THEN RaiseSelect("NoMatch")
         ELSE ReturnSelect(networks[best_index], min_cost, best_index)
    ELSE
        LET network == networks[i]
        IN  IF network.name \notin DOMAIN configs
            THEN RaiseSelect("NoMatch")
            ELSE
                LET cost == calculate_cost(network, configs[network.name], t)
                IN  IF cost.error # "none"
                    THEN RaiseSelect(cost.error)
                    ELSE IF cost.value < min_cost
                    THEN select_loop_miss_is_fatal(networks, configs, t, i + 1,
                                                   i, cost.value)
                    ELSE select_loop_miss_is_fatal(networks, configs, t, i + 1,
                                                   best_index, min_cost)

\* the for-loop of select_best_network from candidate i on, with the
\* best_network (as its position, 0 for None) and min_cost found so far
RECURSIVE select_loop(_, _, _, _, _, _)
select_loop(networks, configs, t, i, best_index, min_cost) ==
    IF i > Len(networks)
    THEN IF best_index = 0
         THEN RaiseSelect("NoMatch")
         ELSE ReturnSelect(networks[best_index], min_cost, best_index)
    ELSE
        LET network == networks[i]
        IN  IF network.name \notin DOMAIN configs
            THEN select_loop(networks, configs, t, i + 1, best_index, min_cost)
            ELSE
                LET cost == calculate_cost(network, configs[network.name], t)
                IN  IF cost.error # "none"
                    THEN RaiseSelect(cost.error)
                    ELSE IF cost.value < min_cost
                    THEN select_loop(networks, configs, t, i + 1, i, cost.value)
                    ELSE select_loop(networks, configs, t, i + 1,
                                     best_index, min_cost)

\* faulty variant: the check for an empty candidate list is missing
select_best_network_unchecked(networks, configs, t) ==
    select_loop(networks, configs, t, 1, 0, Inf)

select_best_network(networks, configs, t) ==
    IF Len(networks) = 0
    THEN RaiseSelect("EmptyCandidates")
    ELSE select_loop(networks, configs, t, 1, 0, Inf)

----------------------------------------------------------------------------
(* simulation.py: the config table the callers pass to select_best_network *)

network_configs_table ==
    [n \in {"Wi-Fi", "5G", "BLE"} |->
        CASE n = "Wi-Fi" -> NetworkConfig("Wi-Fi", 5, 100, 20)
          [] n = "5G"    -> NetworkConfig("5G", 12, 150, 50)
          [] n = "BLE"   -> NetworkConfig("BLE", 1, 20, 5)]

----------------------------------------------------------------------------
(* The two decision endpoints: POST /decision (app/main.py) and POST /decide *)
(* (src/api.py).  The request body is a DeviceState; its position is only   *)
(* echoed in the answer and is left out.                                    *)

\* api.py's own table: the same figures as the simulator's
DEFAULT_NETWORK_CONFIGS ==
    [n \in {"Wi-Fi", "5G", "BLE"} |->
        CASE n = "Wi-Fi" -> NetworkConfig("Wi-Fi", 5, 100, 20)
          [] n = "5G"    -> NetworkConfig("5G", 12, 150, 50)
          [] n = "BLE"   -> NetworkConfig("BLE", 1, 20, 5)]

\* an HTTPException with the given status code; costs_computed counts the
\* calls of calculate_cost the handler made before it answered
HTTPException(status_code, costs_computed) ==
    [status_code |-> status_code, network |-> "", cost |-> 0,
     costs_computed |-> costs_computed]

\* a 200 answer naming the chosen network and its cost
HTTPResponse(network, cost, costs_computed) ==
    [status_code |-> 200, network |-> network, cost |-> cost,
     costs_computed |-> costs_computed]

\* the candidates of the list that have a config in the table
ConfiguredPositions(networks, configs) ==
    {i \in 1..Len(networks) : networks[i].name \in DOMAIN configs}

\* main.py: the network_costs dict after the loop; a later candidate of the
\* same name overwrites the cost of an earlier one
network_costs(networks, configs, t) ==
    LET conf == ConfiguredPositions(networks, configs)
        last(n) == CHOOSE i \in conf :
                       /\ networks[i].name = n
                       /\ \A j \in conf : networks[j].name = n => j <= i
    IN  [n \in {networks[i].name : i \in conf} |->
            calculate_cost(networks[last(n)], configs[n], t).value]

\* main.py: min(network_costs, key=network_costs.get), the first key in
\* insertion order among those of least cost
min_network_cost(networks, configs, costs) ==
    LET first(n) == CHOOSE i \in 1..Len(networks) :
                        /\ networks[i].name = n
                        /\ \A j \in 1..i - 1 : networks[j].name # n
    IN  CHOOSE n \in DOMAIN costs :
            \A m \in DOMAIN costs :
                \/ costs[n] < costs[m]
                \/ costs[n] = costs[m] /\ first(n) <= first(m)

\* POST /decision
make_decision(networks, t) ==
    LET configs == network_configs_table
        conf == ConfiguredPositions(networks, configs)
        costs == network_costs(networks, configs, t)
    IN  IF Len(networks) = 0
        THEN HTTPException(400, 0)
        ELSE IF conf # {} /\ t \notin DOMAIN TASK_WEIGHTS
        THEN HTTPException(500, 1)
        ELSE IF conf = {}
        THEN HTTPException(400, 0)
        ELSE LET optimal_network == min_network_cost(networks, configs, costs)
             IN  HTTPResponse(optimal_network, costs[optimal_network],
                              Cardinality(conf))

\* faulty variant: a ValueError of the selection is not told apart from an
\* unexpected exception and answers 500
decide_network_all_500(networks, t) ==
    LET configs == DEFAULT_NETWORK_CONFIGS
        conf == ConfiguredPositions(networks, configs)
        selected == select_best_network(networks, configs, t)
    IN  IF selected.error = "EmptyCandidates"
        THEN HTTPException(500, 0)
        ELSE IF selected.error = "InvalidTask"
        THEN HTTPException(500, 1)
        ELSE IF selected.error = "NoMatch"
        THEN HTTPException(500, Cardinality(conf))
        ELSE HTTPResponse(selected.network.name, selected.cost,
                          2 * Cardinality(conf))

\* POST /decide
decide_network(networks, t) ==
    LET configs == DEFAULT_NETWORK_CONFIGS
        conf == ConfiguredPositions(networks, configs)
        selected == select_best_network(networks, configs, t)
    IN  IF selected.error = "EmptyCandidates"
        THEN HTTPException(400, 0)
        ELSE IF selected.error = "InvalidTask"
        THEN HTTPException(400, 1)
        ELSE IF selected.error = "NoMatch"
        THEN HTTPException(400, Cardinality(conf))
        ELSE HTTPResponse(selected.network.name, selected.cost,
                          2 * Cardinality(conf))

----------------------------------------------------------------------------
(* simulation.py: the SimulationEngine                                      *)
(*                                                                          *)
(* The engine is a record of its attributes.  Every method is an operator   *)
(* from the engine before the call (and the random draws the call makes) to *)
(* the engine after it.  A draw of random.random() is given per mille       *)
(* (0..999); the QoS arithmetic is fixed point with truncating division:    *)
(* distances in tenths, the bandwidth of _calculate_qos_by_distance in      *)
(* hundredths of Mbps, the bandwidth of a NetworkState in tenths as before. *)

Min(a, b) == IF a <= b THEN a ELSE b

Max(a, b) == IF a >= b THEN a ELSE b

\* the keys of network_configs in insertion order
NetworkTypes == <<"Wi-Fi", "5G", "BLE">>

\* faulty variant: the 5G tower at (900, 100) is missing
base_stations_table_three_towers ==
    [n \in {"Wi-Fi", "5G", "BLE"} |->
        CASE n = "Wi-Fi" -> <<<<100, 100>>, <<300, 250>>, <<600, 400>>, <<800, 750>>>>
          [] n = "5G"    -> <<<<200, 200>>, <<500, 300>>, <<700, 600>>>>
          [] n = "BLE"   -> <<<<150, 150>>, <<350, 350>>, <<550, 550>>, <<750, 750>>>>]

\* _init_base_stations
base_stations_table ==
    [n \in {"Wi-Fi", "5G", "BLE"} |->
        CASE n = "Wi-Fi" -> <<<<100, 100>>, <<300, 250>>, <<600, 400>>, <<800, 750>>>>
          [] n = "5G"    -> <<<<200, 200>>, <<500, 300>>, <<700, 600>>, <<900, 100>>>>
          [] n = "BLE"   -> <<<<150, 150>>, <<350, 350>>, <<550, 550>>, <<750, 750>>>>]

\* max_specs of _calculate_qos_by_distance: bandwidth in tenths of Mbps,
\* latency in ms, range in map units
max_specs ==
    [n \in {"Wi-Fi", "5G", "BLE"} |->
        CASE n = "Wi-Fi" -> [bandwidth |-> 1000, latency |-> 5, range |-> 100]
          [] n = "5G"    -> [bandwidth |-> 2000, latency |-> 10, range |-> 500]
          [] n = "BLE"   -> [bandwidth |-> 20, latency |-> 20, range |-> 50]]

\* a DeviceState
DeviceState(position, current_task, networks) ==
    [position |-> position, current_task |-> current_task,
     available_networks |-> networks]

\* the engine before it is constructed
NoEngine ==
    [map_size |-> <<0, 0>>, simulation_step |-> 0,
     network_configs |-> network_configs_table,
     base_stations |-> base_stations_table,
     device_state |-> DeviceState(<<0, 0>>, "IDLE_MONITORING", <<>>)]

\* the square of _calculate_distance (compared exactly, without the root)
DistanceSquared(pos1, pos2) ==
    (pos1[1] - pos2[1]) * (pos1[1] - pos2[1])
    + (pos1[2] - pos2[2]) * (pos1[2] - pos2[2])

\* the largest r in lo..hi with r * r <= n
RECURSIVE ISqrt(_, _, _)
ISqrt(n, lo, hi) ==
    IF lo >= hi THEN lo
    ELSE LET mid == (lo + hi + 1) \div 2
         IN  IF mid * mid <= n THEN ISqrt(n, mid, hi) ELSE ISqrt(n, lo, mid - 1)

\* 0.8 + 0.4 * random.random(), per mille, for a draw r in 0..999
NoiseFactor(r) == 800 + (4 * r) \div 10

\* what _calculate_qos_by_distance returns out of range
OutOfRange == [bandwidth |-> 0, latency |-> 9999]

\* faulty variant: the bandwidth decays to 0 at the edge of the range
\* instead of 10% of the peak
qos_before_noise_to_zero(network_type, distance) ==
    LET spec == max_specs[network_type]
        max_range == spec.range
    IN  [bandwidth |-> (spec.bandwidth * 10 * (100 * max_range - 10 * distance))
                           \div (100 * max_range),
         latency |-> (spec.latency * 100 * (10 * max_range + 9 * distance))
                         \div (10 * max_range)]

\* _calculate_qos_by_distance before the noise, for a distance in tenths
\* within the range: bandwidth = P * (1.0 - 0.9 * ratio) in hundredths of
\* Mbps, latency = L * (1.0 + 9.0 * ratio) in hundredths of ms
qos_before_noise(network_type, distance) ==
    LET spec == max_specs[network_type]
        max_range == spec.range
    IN  [bandwidth |-> (spec.bandwidth * 10 * (100 * max_range - 9 * distance))
                           \div (100 * max_range),
         latency |-> (spec.latency * 100 * (10 * max_range + 9 * distance))
                         \div (10 * max_range)]

\* faulty variant: a station at exactly the maximum range is out of range
\* (>= for >)
_calculate_qos_by_distance_open_range(device_position, station_position, network_type, noise) ==
    IF network_type \notin DOMAIN max_specs
    THEN OutOfRange
    ELSE
        LET max_range == max_specs[network_type].range
            d2 == DistanceSquared(device_position, station_position)
        IN  IF d2 >= max_range * max_range
            THEN OutOfRange
            ELSE
                LET distance == ISqrt(100 * d2, 0, 10 * max_range)
                    before == qos_before_noise(network_type, distance)
                    noisy_bandwidth ==
                        (before.bandwidth * NoiseFactor(noise[1])) \div 1000
                    noisy_latency ==
                        (before.latency * NoiseFactor(noise[2])) \div 1000
                IN  [bandwidth |-> IF noisy_bandwidth < 10 THEN 10 ELSE noisy_bandwidth,
                     latency |-> IF noisy_latency \div 100 < 5 THEN 5
                                 ELSE noisy_latency \div 100]

\* faulty variant: the latency is not floored at 5 ms
_calculate_qos_by_distance_no_latency_floor(device_position, station_position, network_type, noise) ==
    IF network_type \notin DOMAIN max_specs
    THEN OutOfRange
    ELSE
        LET max_range == max_specs[network_type].range
            d2 == DistanceSquared(device_position, station_position)
        IN  IF d2 > max_range * max_range
            THEN OutOfRange
            ELSE
                LET distance == ISqrt(100 * d2, 0, 10 * max_range)
                    before == qos_before_noise(network_type, distance)
                    noisy_bandwidth ==
                        (before.bandwidth * NoiseFactor(noise[1])) \div 1000
                    noisy_latency ==
                        (before.latency * NoiseFactor(noise[2])) \div 1000
                IN  [bandwidth |-> IF noisy_bandwidth < 10 THEN 10 ELSE noisy_bandwidth,
                     latency |-> noisy_latency \div 100]

\* _calculate_qos_by_distance; noise = <<draw for bandwidth, draw for latency>>
\* (bandwidth in hundredths of Mbps)
_calculate_qos_by_distance(device_position, station_position, network_type, noise) ==
    IF network_type \notin DOMAIN max_specs
    THEN OutOfRange
    ELSE
        LET max_range == max_specs[network_type].range
            d2 == DistanceSquared(device_position, station_position)
        IN  IF d2 > max_range * max_range
            THEN OutOfRange
            ELSE
                LET distance == ISqrt(100 * d2, 0, 10 * max_range)
                    before == qos_before_noise(network_type, distance)
                    noisy_bandwidth ==
                        (before.bandwidth * NoiseFactor(noise[1])) \div 1000
                    noisy_latency ==
                        (before.latency * NoiseFactor(noise[2])) \div 1000
                IN  [bandwidth |-> IF noisy_bandwidth < 10 THEN 10 ELSE noisy_bandwidth,
                     latency |-> IF noisy_latency \div 100 < 5 THEN 5
                                 ELSE noisy_latency \div 100]

\* faulty variant of the loop: the comparison is turned round, so the
\* farthest station is kept
RECURSIVE farthest_station(_, _, _, _)
farthest_station(stations, device_position, i, best) ==
    IF i > Len(stations) THEN best
    ELSE IF best = 0
            \/ DistanceSquared(device_position, stations[i])
                 > DistanceSquared(device_position, stations[best])
         THEN farthest_station(stations, device_position, i + 1, i)
         ELSE farthest_station(stations, device_position, i + 1, best)

\* the loop of _find_best_base_station from station i on: the position (in
\* the list) of the nearest station so far, 0 for none
RECURSIVE nearest_station(_, _, _, _)
nearest_station(stations, device_position, i, best) ==
    IF i > Len(stations) THEN best
    ELSE IF best = 0
            \/ DistanceSquared(device_position, stations[i])
                 < DistanceSquared(device_position, stations[best])
         THEN nearest_station(stations, device_position, i + 1, i)
         ELSE nearest_station(stations, device_position, i + 1, best)

\* _find_best_base_station: the QoS of the nearest station of the type; the
\* draws made for stations that were overtaken later do not reach the result
_find_best_base_station(self, device_position, network_type, noise) ==
    IF network_type \notin DOMAIN self.base_stations
    THEN OutOfRange
    ELSE
        LET stations == self.base_stations[network_type]
            best == nearest_station(stations, device_position, 1, 0)
        IN  IF best = 0
            THEN OutOfRange
            ELSE _calculate_qos_by_distance(device_position, stations[best],
                                            network_type, noise)

\* the draws of one network type: <<0, 0>> where the call makes none
NoiseOf(noise, network_type) ==
    IF network_type \in DOMAIN noise THEN noise[network_type] ELSE <<0, 0>>

\* round(bandwidth, 1): hundredths to tenths
Round1(bandwidth) == (bandwidth + 5) \div 10

\* faulty variant: a network is listed only from 10 Mbps on, so whether it
\* is listed depends on the noise
available_at_min_bandwidth(self, device_position, noise) ==
    LET found == [i \in 1..Len(NetworkTypes) |->
                     LET qos == _find_best_base_station(
                                    self, device_position, NetworkTypes[i],
                                    NoiseOf(noise, NetworkTypes[i]))
                     IN  NetworkState(NetworkTypes[i], Round1(qos.bandwidth),
                                      qos.latency, qos.bandwidth >= 1000)]
    IN  SelectSeq(found, LAMBDA n : n.is_available)

\* the list _update_available_networks builds at a position
available_at(self, device_position, noise) ==
    LET found == [i \in 1..Len(NetworkTypes) |->
                     LET qos == _find_best_base_station(
                                    self, device_position, NetworkTypes[i],
                                    NoiseOf(noise, NetworkTypes[i]))
                     IN  NetworkState(NetworkTypes[i], Round1(qos.bandwidth),
                                      qos.latency, qos.bandwidth > 0)]
    IN  SelectSeq(found, LAMBDA n : n.is_available)

\* _update_available_networks
_update_available_networks(self, noise) ==
    [self EXCEPT !.device_state.available_networks =
        available_at(self, self.device_state.position, noise)]

\* _generate_random_task for a draw rand (per mille): idle 0.6, burst 0.3,
\* streaming 0.1, tested cumulatively with <=
_generate_random_task(rand) ==
    IF rand <= 600 THEN "IDLE_MONITORING"
    ELSE IF rand <= 900 THEN "DATA_BURST_ALERT"
    ELSE IF rand <= 1000 THEN "VIDEO_STREAMING"
    ELSE "IDLE_MONITORING"

\* the default step_size of _move_device
step_size == 10

\* the four directions of the random phase
directions ==
    <<<<0 - step_size, 0>>, <<step_size, 0>>, <<0, 0 - step_size>>, <<0, step_size>>>>

\* faulty variant: the random phase clamps at zero only
_move_device_no_upper_clamp(self, choice) ==
    LET current_x == self.device_state.position[1]
        current_y == self.device_state.position[2]
        w == self.map_size[1]
        h == self.map_size[2]
    IN  IF self.simulation_step < 100
        THEN <<Min(current_x + step_size, w - 1), current_y>>
        ELSE IF self.simulation_step < 200
        THEN <<current_x, Min(current_y + step_size, h - 1)>>
        ELSE <<Max(0, current_x + directions[choice][1]),
               Max(0, current_y + directions[choice][2])>>

\* faulty variant: the horizontal phase does not stop at the east edge
_move_device_unclamped_x(self, choice) ==
    LET current_x == self.device_state.position[1]
        current_y == self.device_state.position[2]
        w == self.map_size[1]
        h == self.map_size[2]
    IN  IF self.simulation_step < 100
        THEN <<current_x + step_size, current_y>>
        ELSE IF self.simulation_step < 200
        THEN <<current_x, Min(current_y + step_size, h - 1)>>
        ELSE <<Max(0, Min(current_x + directions[choice][1], w - 1)),
               Max(0, Min(current_y + directions[choice][2], h - 1))>>

\* _move_device: the new position; self.simulation_step has already been
\* raised by run_simulation_step, choice is the draw of random.choice
_move_device(self, choice) ==
    LET current_x == self.device_state.position[1]
        current_y == self.device_state.position[2]
        w == self.map_size[1]
        h == self.map_size[2]
    IN  IF self.simulation_step < 100
        THEN <<Min(current_x + step_size, w - 1), current_y>>
        ELSE IF self.simulation_step < 200
        THEN <<current_x, Min(current_y + step_size, h - 1)>>
        ELSE <<Max(0, Min(current_x + directions[choice][1], w - 1)),
               Max(0, Min(current_y + directions[choice][2], h - 1))>>

\* run_simulation_step; draws = [choice, rand, noise]
run_simulation_step(self, draws) ==
    LET counted == [self EXCEPT !.simulation_step = @ + 1]
        new_position == _move_device(counted, draws.choice)
        new_task == _generate_random_task(draws.rand)
        moved == [counted EXCEPT !.device_state.position = new_position,
                                 !.device_state.current_task = new_task]
    IN  _update_available_networks(moved, draws.noise)

\* faulty variant: the step counter is not zeroed
reset_simulation_keeps_counter(self, new_position, noise) ==
    LET reset == [self EXCEPT !.device_state.position = new_position,
                              !.device_state.current_task = "IDLE_MONITORING"]
    IN  _update_available_networks(reset, noise)

\* faulty variant: the new position is clamped into the map
reset_simulation_clamped(self, new_position, noise) ==
    LET reset == [self EXCEPT
                    !.simulation_step = 0,
                    !.device_state.position =
                        <<Max(0, Min(new_position[1], self.map_size[1] - 1)),
                          Max(0, Min(new_position[2], self.map_size[2] - 1))>>,
                    !.device_state.current_task = "IDLE_MONITORING"]
    IN  _update_available_networks(reset, noise)

\* reset_simulation
reset_simulation(self, new_position, noise) ==
    LET reset == [self EXCEPT !.simulation_step = 0,
                              !.device_state.position = new_position,
                              !.device_state.current_task = "IDLE_MONITORING"]
    IN  _update_available_networks(reset, noise)

\* the placeholder network of the constructor
temp_network == NetworkState("Temp", Fixed(1), 100, TRUE)

\* faulty variant of the constructor: the networks are not recomputed
SimulationEngine_no_update(map_size, noise) ==
    [map_size |-> map_size, simulation_step |-> 0,
     network_configs |-> network_configs_table,
     base_stations |-> base_stations_table,
     device_state |-> DeviceState(<<0, 0>>, "IDLE_MONITORING", <<temp_network>>)]

\* SimulationEngine.__init__
SimulationEngine(map_size, noise) ==
    LET self == [map_size |-> map_size, simulation_step |-> 0,
                 network_configs |-> network_configs_table,
                 base_stations |-> base_stations_table,
                 device_state |-> DeviceState(<<0, 0>>, "IDLE_MONITORING",
                                              <<temp_network>>)]
    IN  _update_available_networks(self, noise)

\* get_simulation_stats
get_simulation_stats(self) ==
    [simulation_step |-> self.simulation_step,
     current_position |-> self.device_state.position,
     current_task |-> self.device_state.current_task,
     available_networks_count |-> Len(self.device_state.available_networks),
     available_networks |->
        [i \in 1..Len(self.device_state.available_networks) |->
            self.device_state.available_networks[i].name],
     map_size |-> self.map_size,
     total_base_stations |->
        Len(self.base_stations["Wi-Fi"]) + Len(self.base_stations["5G"])
        + Len(self.base_stations["BLE"])]

\* Objects a caller holds.  run_simulation_step returns the engine's own
\* device_state object; run_multiple_steps returns fresh copies.
LiveDeviceState == [kind |-> "live", state |-> NoEngine.device_state]

\* faulty variant: the list holds the engine's own object, not a copy
DeviceStateAlias(state) == LiveDeviceState

\* DeviceState(position=..., current_task=..., available_networks=[NetworkState(...) ...])
DeviceStateCopy(state) == [kind |-> "copy", state |-> state]

\* the caller holds no DeviceState yet
NoDeviceState == [kind |-> "none", state |-> NoEngine.device_state]

\* faulty variant: run_simulation_step returns a copy of the device state
run_simulation_step_return_copy(self) == DeviceStateCopy(self.device_state)

\* run_simulation_step: return self.device_state, for the engine after the
\* step
run_simulation_step_return(self) == LiveDeviceState

----------------------------------------------------------------------------
(* The draws explored *)

\* draws of random.random() for the noise: the two ends of [0, 1)
NoiseDraws == {0, 999}

\* draws of random.random() for the task: one in each band
TaskDraws == {300, 750, 950}

\* the draws of a caller: those of the task and those of the noise
Draws(task_draws, noise_draws) == [task |-> task_draws, noise |-> noise_draws]

\* the network types with a station in range of the position: the calls of
\* _calculate_qos_by_distance that draw noise and reach the result
InRange(self, device_position) ==
    {n \in DOMAIN self.base_stations \cap DOMAIN max_specs :
        LET stations == self.base_stations[n]
            best == nearest_station(stations, device_position, 1, 0)
        IN  /\ best # 0
            /\ DistanceSquared(device_position, stations[best])
                  <= max_specs[n].range * max_specs[n].range}

\* the noise draws of one _update_available_networks at the position: a
\* draw for the bandwidth and a draw for the latency, explored with the
\* same pair for every type in range
NoisesAt(self, device_position, noise_draws) ==
    {[n \in InRange(self, device_position) |-> pair] :
        pair \in noise_draws \X noise_draws}

\* the engines one run_simulation_step can leave, over the draws
StepOutcomes(self, draws) ==
    LET counted == [self EXCEPT !.simulation_step = @ + 1]
        choices == IF counted.simulation_step < 200 THEN {1} ELSE 1..4
    IN  UNION {{run_simulation_step(self, [choice |-> c, rand |-> r, noise |-> n]) :
                    r \in draws.task,
                    n \in NoisesAt(self, _move_device(counted, c), draws.noise)} :
               c \in choices}

\* run_multiple_steps: the engines it can leave together with the list it
\* returns, over the draws
RECURSIVE run_multiple_steps(_, _, _)
run_multiple_steps(self, num_steps, draws) ==
    IF num_steps <= 0
    THEN {[self |-> self, results |-> <<>>]}
    ELSE UNION {{[self |-> after,
                  results |-> Append(before.results,
                                     DeviceStateCopy(after.device_state))] :
                    after \in StepOutcomes(before.self, draws)} :
                before \in run_multiple_steps(self, num_steps - 1, draws)}

----------------------------------------------------------------------------
(* src/api.py: the handlers of POST /simulation/run and POST /calculate-cost *)

\* raise HTTPException(status_code=...); steps_run counts the calls of
\* run_simulation_step the handler made before
ApiException(status_code, steps_run) ==
    [status_code |-> status_code, body |-> <<>>, steps_run |-> steps_run]

\* a returned dict, answered with status 200
ApiResponse(body, steps_run) ==
    [status_code |-> 200, body |-> body, steps_run |-> steps_run]

\* try: ... except Exception as e: raise HTTPException(status_code=500):
\* the only handler of the try block.  HTTPException is a subclass of
\* Exception, so an HTTPException raised inside the block is caught too
except_Exception(outcome) ==
    IF outcome.status_code # 200
    THEN ApiException(500, outcome.steps_run)
    ELSE outcome

\* run_simulation: step_result for the device state a step has left and
\* the step counter after it
step_result(self, state, step, include_decisions) ==
    LET selected == select_best_network(state.available_networks,
                                        self.network_configs, state.current_task)
    IN  [step |-> step,
         position |-> state.position,
         task |-> state.current_task,
         available_networks |-> Len(state.available_networks),
         networks |-> [i \in 1..Len(state.available_networks) |->
                          state.available_networks[i].name],
         decision |->
             IF include_decisions /\ state.available_networks # <<>>
             THEN IF selected.error = "none"
                  THEN <<"selected", selected.network.name, selected.cost>>
                  ELSE <<"error", selected.error>>
             ELSE <<>>]

\* POST /simulation/run: the engine after the request and the answer
run_simulation(self, req, draws) ==
    IF req.num_steps <= 0 \/ req.num_steps > 1000
    THEN {[self |-> self, response |-> except_Exception(ApiException(400, 0))]}
    ELSE {[self |-> outcome.self,
           response |->
               except_Exception(ApiResponse(
                   [total_steps |-> Len(outcome.results),
                    simulation_summary |-> get_simulation_stats(outcome.self),
                    results |->
                        [i \in 1..Len(outcome.results) |->
                            step_result(self, outcome.results[i].state,
                                        self.simulation_step + i,
                                        req.include_decisions)]],
                   req.num_steps))] :
             outcome \in run_multiple_steps(self, req.num_steps, draws)}

\* POST /calculate-cost
calculate_network_cost(state, t, network_name) ==
    LET config_name == IF network_name # "" THEN network_name ELSE state.name
    IN  except_Exception(
            IF config_name \notin DOMAIN DEFAULT_NETWORK_CONFIGS
            THEN ApiException(400, 0)
            ELSE LET config == DEFAULT_NETWORK_CONFIGS[config_name]
                     total_cost == calculate_cost(state, config, t)
                 IN  IF total_cost.error # "none"
                     THEN ApiException(500, 0)
                     ELSE ApiResponse(
                              [network |-> state.name,
                               task |-> t,
                               total_cost |-> total_cost.value,
                               energy_cost |-> calculate_energy_cost(config, state, t),
                               qos_penalty |-> calculate_qos_penalty(state, t),
                               network_config |-> config],
                              0))

----------------------------------------------------------------------------
(* The inputs the calls are explored on *)

TaskInputs == TaskState \cup {UnknownTask}

\* 0.1 Mbps and 0.5 .. 10.5 Mbps in steps of 0.5 (around every min_bandwidth)
Bandwidths == {1} \cup {5 * k : k \in 1..MaxBandwidthSteps}

\* 5 ms and 25 .. 1300 ms in steps of 25 (around every max_latency and
\* around the latencies whose penalty reaches 500)
Latencies == {5} \cup {25 * k : k \in 1..MaxLatencySteps}

\* the network states calculate_qos_penalty is called on
QosStates ==
    {NetworkState("5G", b, l, a) : b \in Bandwidths, l \in Latencies,
                                   a \in BOOLEAN}

\* the network states calculate_cost and calculate_energy_cost are called on
CostStates ==
    {NetworkState("5G", b, l, a) : b \in {1, 45, 100}, l \in {5, 150, 350, 1250},
                                   a \in BOOLEAN}

\* the configs calculate_cost and calculate_energy_cost are called on: every
\* one satisfies the schema's constraints, energy_tx may be float('inf')
Configs ==
    {NetworkConfig(n, tx, idle, wakeup) :
        n \in {"5G"}, tx \in {1, 5, 12, Inf}, idle \in {20, 100, 150},
        wakeup \in {0, 5, 20, 50}}

\* the candidates of select_best_network: three names (the table has no
\* "Offline") with a good, a degraded, a poor and an unavailable observation
Candidates ==
    {NetworkState(n, q[1], q[2], q[3]) :
        n \in {"Wi-Fi", "BLE", "Offline"},
        q \in {<<500, 15, TRUE>>, <<45, 150, TRUE>>, <<5, 500, TRUE>>,
               <<1000, 10, FALSE>>}}

RECURSIVE ListsUpTo(_, _)
ListsUpTo(S, n) ==
    IF n = 0 THEN {<<>>}
    ELSE LET shorter == ListsUpTo(S, n - 1)
         IN  shorter \cup {Append(l, x) : l \in {m \in shorter : Len(m) = n - 1},
                                          x \in S}

CandidateLists == ListsUpTo(Candidates, MaxCandidates)

Restrict(f, S) == [x \in S \cap DOMAIN f |-> f[x]]

\* the config tables select_best_network is called with: the simulator's
\* table and its restrictions (a candidate's config may be missing), the
\* table with an infinite Wi-Fi transmit energy, and a table that gives
\* BLE the energy figures of Wi-Fi
ConfigTables ==
    {Restrict(network_configs_table, {"5G"} \cup S) : S \in SUBSET {"Wi-Fi", "BLE"}}
    \cup {[network_configs_table EXCEPT !["Wi-Fi"].energy_tx = Inf],
          [network_configs_table EXCEPT
              !["BLE"] = NetworkConfig("BLE", 5, 100, 20)]}

----------------------------------------------------------------------------
(* The callers: one call at a time, on any of the inputs *)

NoState == NetworkState("", 0, 0, FALSE)
NoConfig == NetworkConfig("", 0, 0, 0)
NoResult == Raise("none")

\* the body of a request to POST /simulation/run (num_steps,
\* include_decisions) or POST /calculate-cost (network_name, "" for None;
\* network_state and task are the arguments of the scoring call)
Request(num_steps, include_decisions, network_name) ==
    [num_steps |-> num_steps, include_decisions |-> include_decisions,
     network_name |-> network_name]

NoRequest == Request(0, FALSE, "")

\* the threads of the pool in which the framework runs the handlers that
\* are plain (not async) functions; two are enough for two requests in
\* flight at once
Workers == {"worker-1", "worker-2"}

\* a worker: where it is in the handler it runs (pc names the function it
\* is about to enter or the value it is about to read), the locals
\* new_position (run_simulation_step, reset_simulation) and current_pos
\* (_update_available_networks), the response as far as it is built, and
\* the number of requests it has answered
Worker(pc, handler, new_position, served) ==
    [pc |-> pc, handler |-> handler, new_position |-> new_position,
     current_pos |-> <<0, 0>>, response |-> <<>>, served |-> served]

\* a worker that waits for its first request
IdleWorker == Worker("idle", "none", <<0, 0>>, 0)

\* a call of a method of the engine with its arguments
Call(op, position, num_steps) ==
    [op |-> op, position |-> position, num_steps |-> num_steps]

\* no engine has been constructed
NoCall == Call("none", <<0, 0>>, 0)

\* the values the methods of the engine return
ReturnedNone == [kind |-> "None", value |-> 0]
ReturnedDeviceState == [kind |-> "DeviceState", value |-> LiveDeviceState]
ReturnedList == [kind |-> "List[DeviceState]", value |-> 0]
ReturnedStats(stats) == [kind |-> "Dict", value |-> stats]

Init ==
    /\ fn = "none"
    /\ task = "IDLE_MONITORING"
    /\ available_networks = <<>>
    /\ network_configs = Restrict(network_configs_table, {})
    /\ network_state = NoState
    /\ network_config = NoConfig
    /\ result = NoResult
    /\ request = NoRequest
    /\ threads = [t \in Workers |-> IdleWorker]
    /\ simulation_engine = NoEngine
    /\ call = NoCall
    /\ returned = ReturnedNone
    /\ results = <<>>
    /\ device_state = NoDeviceState
    /\ steps_taken = 0
    /\ start_position = <<0, 0>>

CallSelectBestNetwork ==
    /\ fn = "none"
    /\ \E networks \in CandidateLists, configs \in ConfigTables, t \in TaskInputs :
        /\ fn' = "select_best_network"
        /\ available_networks' = networks
        /\ network_configs' = configs
        /\ task' = t
        /\ result' = select_best_network(networks, configs, t)
    /\ UNCHANGED <<network_state, network_config>>
    /\ UNCHANGED sim_vars
    /\ UNCHANGED http_vars

CallCalculateCost ==
    /\ fn = "none"
    /\ \E state \in CostStates, config \in Configs, t \in TaskInputs :
        /\ fn' = "calculate_cost"
        /\ network_state' = state
        /\ network_config' = config
        /\ task' = t
        /\ result' = calculate_cost(state, config, t)
    /\ UNCHANGED <<available_networks, network_configs>>
    /\ UNCHANGED sim_vars
    /\ UNCHANGED http_vars

CallCalculateEnergyCost ==
    /\ fn = "none"
    /\ \E state \in CostStates, config \in Configs, t \in TaskInputs :
        /\ fn' = "calculate_energy_cost"
        /\ network_state' = state
        /\ network_config' = config
        /\ task' = t
        /\ result' = Return(calculate_energy_cost(config, state, t))
    /\ UNCHANGED <<available_networks, network_configs>>
    /\ UNCHANGED sim_vars
    /\ UNCHANGED http_vars

CallCalculateQosPenalty ==
    /\ fn = "none"
    /\ \E state \in QosStates, t \in TaskInputs :
        /\ fn' = "calculate_qos_penalty"
        /\ network_state' = state
        /\ task' = t
        /\ result' = Return(calculate_qos_penalty(state, t))
    /\ UNCHANGED <<available_networks, network_configs, network_config>>
    /\ UNCHANGED sim_vars
    /\ UNCHANGED http_vars

\* a client posts a DeviceState to POST /decision; the task is one of the
\* enum (the framework answers any other body before the handler runs)
PostDecision ==
    /\ fn = "none"
    /\ \E networks \in CandidateLists, t \in TaskState :
        /\ fn' = "make_decision"
        /\ available_networks' = networks
        /\ network_configs' = network_configs_table
        /\ task' = t
        /\ result' = make_decision(networks, t)
    /\ UNCHANGED <<network_state, network_config>>
    /\ UNCHANGED sim_vars
    /\ UNCHANGED http_vars

\* a client posts a DeviceState to POST /decide
PostDecide ==
    /\ fn = "none"
    /\ \E networks \in CandidateLists, t \in TaskState :
        /\ fn' = "decide_network"
        /\ available_networks' = networks
        /\ network_configs' = DEFAULT_NETWORK_CONFIGS
        /\ task' = t
        /\ result' = decide_network(networks, t)
    /\ UNCHANGED <<network_state, network_config>>
    /\ UNCHANGED sim_vars
    /\ UNCHANGED http_vars

\* the call is over: the functions keep no state between calls
EndCall ==
    /\ fn # "none"
    /\ fn' = "none"
    /\ task' = "IDLE_MONITORING"
    /\ available_networks' = <<>>
    /\ network_configs' = Restrict(network_configs_table, {})
    /\ network_state' = NoState
    /\ network_config' = NoConfig
    /\ result' = NoResult
    /\ UNCHANGED sim_vars
    /\ UNCHANGED http_vars

Next ==
    \/ CallSelectBestNetwork
    \/ CallCalculateCost
    \/ CallCalculateEnergyCost
    \/ CallCalculateQosPenalty
    \/ PostDecision
    \/ PostDecide
    \/ EndCall

Spec == Init /\ [][Next]_vars

----------------------------------------------------------------------------
(* The callers of the engine: one method call at a time *)

\* SimulationEngine(map_size)
Construct(map_sizes, draws) ==
    /\ call.op = "none"
    /\ \E map_size \in map_sizes,
          noise \in NoisesAt(NoEngine, <<0, 0>>, draws.noise) :
        simulation_engine' = SimulationEngine(map_size, noise)
    /\ call' = Call("__init__", <<0, 0>>, 0)
    /\ returned' = ReturnedNone
    /\ results' = <<>>
    /\ device_state' = NoDeviceState
    /\ steps_taken' = 0
    /\ start_position' = <<0, 0>>
    /\ UNCHANGED cost_vars
    /\ UNCHANGED http_vars

\* device_state = engine.run_simulation_step(); a caller that holds the
\* value of an earlier call keeps that one
Step(max_step, draws) ==
    /\ call.op # "none"
    /\ simulation_engine.simulation_step < max_step
    /\ \E after \in StepOutcomes(simulation_engine, draws) :
        /\ simulation_engine' = after
        /\ returned' = [ReturnedDeviceState EXCEPT
                            !.value = run_simulation_step_return(after)]
        /\ device_state' = IF device_state = NoDeviceState
                           THEN run_simulation_step_return(after)
                           ELSE device_state
    /\ call' = Call("run_simulation_step", <<0, 0>>, 0)
    /\ steps_taken' = steps_taken + 1
    /\ UNCHANGED <<results, start_position>>
    /\ UNCHANGED cost_vars
    /\ UNCHANGED http_vars

\* engine.reset_simulation(new_position)
Reset(targets, draws) ==
    /\ call.op # "none"
    /\ \E new_position \in targets :
        /\ \E noise \in NoisesAt(simulation_engine, new_position, draws.noise) :
            simulation_engine' =
                reset_simulation(simulation_engine, new_position, noise)
        /\ call' = Call("reset_simulation", new_position, 0)
        /\ start_position' = new_position
    /\ returned' = ReturnedNone
    /\ steps_taken' = 0
    /\ UNCHANGED <<results, device_state>>
    /\ UNCHANGED cost_vars
    /\ UNCHANGED http_vars

\* engine.run_multiple_steps(num_steps): a caller that holds no list keeps
\* the returned one; a caller that holds one already keeps that one and
\* drops the new one
RunMultiple(max_step, max_num_steps, draws) ==
    /\ call.op # "none"
    /\ \E num_steps \in 0..max_num_steps :
        /\ simulation_engine.simulation_step + num_steps <= max_step
        /\ \E outcome \in run_multiple_steps(simulation_engine, num_steps, draws) :
            /\ simulation_engine' = outcome.self
            /\ results' = IF results = <<>> THEN outcome.results ELSE results
        /\ call' = Call("run_multiple_steps", <<0, 0>>, num_steps)
        /\ steps_taken' = steps_taken + num_steps
    /\ returned' = ReturnedList
    /\ UNCHANGED <<device_state, start_position>>
    /\ UNCHANGED cost_vars
    /\ UNCHANGED http_vars

\* engine.get_simulation_stats()
Stats ==
    /\ call.op # "none"
    /\ call' = Call("get_simulation_stats", <<0, 0>>, 0)
    /\ returned' = ReturnedStats(get_simulation_stats(simulation_engine))
    /\ UNCHANGED <<simulation_engine, results, device_state, steps_taken,
                   start_position>>
    /\ UNCHANGED cost_vars
    /\ UNCHANGED http_vars

\* the map sizes an engine is constructed with: the default and a small one
\* whose edges are met within a few steps
SimMaps == {<<1000, 1000>>, <<25, 15>>}

\* the positions reset_simulation is called with: the default, the one next
\* to the first Wi-Fi router, one next to the far corner and one off the map
SimTargets == {<<0, 0>>, <<100, 100>>, <<995, 995>>, <<-20, 1200>>}

SimDraws == Draws(TaskDraws, NoiseDraws)

\* single steps and resets up to step MaxSimStep
SimNext ==
    \/ Construct(SimMaps, SimDraws)
    \/ Step(MaxSimStep, SimDraws)
    \/ Reset(SimTargets, SimDraws)

SimSpec == Init /\ [][SimNext]_vars

\* the map, the reset positions and the draws explored together with
\* run_multiple_steps: two of the tasks, noise in the middle of its band
BulkMaps == {<<1000, 1000>>}
BulkTargets == {<<0, 0>>, <<-20, 1200>>}
BulkDraws == Draws({300, 950}, {500})

\* all methods, run_multiple_steps included, up to step MaxBulkStep
BulkNext ==
    \/ Construct(BulkMaps, BulkDraws)
    \/ Step(MaxBulkStep, BulkDraws)
    \/ Reset(BulkTargets, BulkDraws)
    \/ RunMultiple(MaxBulkStep, MaxNumSteps, BulkDraws)
    \/ Stats

BulkSpec == Init /\ [][BulkNext]_vars

\* the num_steps posted to /simulation/run: below, at and just above the
\* lower limit, and above the upper limit of 1000
ApiNumSteps == {-1, 0, 1001} \cup 1..MaxNumSteps

\* the network states posted to /calculate-cost, under names with and
\* without a config
ApiStates ==
    {NetworkState(n, q[1], q[2], q[3]) :
        n \in {"Wi-Fi", "5G", "Zigbee"},
        q \in {<<500, 15, TRUE>>, <<5, 500, TRUE>>, <<1000, 10, FALSE>>}}

\* the network_name posted with them ("" when the field is left out)
ApiNetworkNames == {"", "BLE", "LoRa"}

\* a client posts a SimulationRequest to POST /simulation/run
PostSimulationRun ==
    /\ fn = "none"
    /\ call.op # "none"
    /\ \E num_steps \in ApiNumSteps, include_decisions \in BOOLEAN :
        LET req == Request(num_steps, include_decisions, "")
        IN  /\ simulation_engine.simulation_step + Max(0, Min(num_steps, MaxNumSteps))
                   <= MaxBulkStep
            /\ \E outcome \in run_simulation(simulation_engine, req, BulkDraws) :
                /\ simulation_engine' = outcome.self
                /\ result' = outcome.response
                /\ steps_taken' = steps_taken + outcome.response.steps_run
                /\ call' = IF outcome.response.steps_run > 0
                           THEN Call("run_simulation_step", <<0, 0>>, 0)
                           ELSE call
                /\ returned' = IF outcome.response.steps_run > 0
                               THEN ReturnedDeviceState
                               ELSE returned
            /\ request' = req
    /\ fn' = "run_simulation"
    /\ UNCHANGED <<task, available_networks, network_configs, network_state,
                   network_config, threads>>
    /\ UNCHANGED <<results, device_state, start_position>>

\* a client posts a CostCalculationRequest to POST /calculate-cost
PostCalculateCost ==
    /\ fn = "none"
    /\ call.op # "none"
    /\ \E state \in ApiStates, t \in TaskState, network_name \in ApiNetworkNames :
        /\ fn' = "calculate_network_cost"
        /\ network_state' = state
        /\ task' = t
        /\ request' = Request(0, FALSE, network_name)
        /\ result' = calculate_network_cost(state, t, network_name)
    /\ UNCHANGED <<available_networks, network_configs, network_config, threads>>
    /\ UNCHANGED sim_vars

\* the answer has been sent
EndRequest ==
    /\ fn \in {"run_simulation", "calculate_network_cost"}
    /\ fn' = "none"
    /\ task' = "IDLE_MONITORING"
    /\ network_state' = NoState
    /\ result' = NoResult
    /\ request' = NoRequest
    /\ UNCHANGED <<available_networks, network_configs, network_config, threads>>
    /\ UNCHANGED sim_vars

\* the two handlers of src/api.py on the engine the module constructs
ApiNext ==
    \/ Construct(BulkMaps, BulkDraws)
    \/ PostSimulationRun
    \/ PostCalculateCost
    \/ EndRequest

ApiSpec == Init /\ [][ApiNext]_vars

\* The handlers of POST /simulation/step and POST /simulation/reset of
\* app/main.py, each run by a worker thread on the one engine of the module.
\* Neither the handlers nor the engine take a lock.  The interpreter can
\* suspend a thread where it enters a function; the code between two such
\* points is one action here.

\* simulation_step() up to the call of _move_device: the counter is raised
HttpStepCall(t, max_step) ==
    /\ call.op # "none"
    /\ threads[t].pc = "idle"
    /\ threads[t].served < MaxServed
    /\ simulation_engine.simulation_step < max_step
    /\ simulation_engine' = [simulation_engine EXCEPT !.simulation_step = @ + 1]
    /\ threads' = [threads EXCEPT ![t] =
           Worker("_move_device", "simulation_step", <<0, 0>>, threads[t].served)]
    /\ call' = Call("run_simulation_step", <<0, 0>>, 0)
    /\ steps_taken' = steps_taken + 1
    /\ UNCHANGED <<returned, results, device_state, start_position, request>>
    /\ UNCHANGED cost_vars

\* new_position = self._move_device()
HttpMoveDevice(t) ==
    /\ threads[t].pc = "_move_device"
    /\ \E choice \in IF simulation_engine.simulation_step < 200 THEN {1} ELSE 1..4 :
        threads' = [threads EXCEPT
            ![t].pc = "_generate_random_task",
            ![t].new_position = _move_device(simulation_engine, choice)]
    /\ UNCHANGED <<sim_vars, request>>
    /\ UNCHANGED cost_vars

\* new_task = self._generate_random_task() and the two assignments to
\* self.device_state, up to the call of _update_available_networks
HttpAssignState(t, draws) ==
    /\ threads[t].pc = "_generate_random_task"
    /\ \E rand \in draws.task :
        simulation_engine' = [simulation_engine EXCEPT
            !.device_state.position = threads[t].new_position,
            !.device_state.current_task = _generate_random_task(rand)]
    /\ threads' = [threads EXCEPT ![t].pc = "_update_available_networks"]
    /\ UNCHANGED <<call, returned, results, device_state, steps_taken,
                   start_position, request>>
    /\ UNCHANGED cost_vars

\* reset_simulation((x, y)) up to the call of _update_available_networks
HttpResetCall(t, targets) ==
    /\ call.op # "none"
    /\ threads[t].pc = "idle"
    /\ threads[t].served < MaxServed
    /\ \E new_position \in targets :
        /\ simulation_engine' = [simulation_engine EXCEPT
               !.simulation_step = 0,
               !.device_state.position = new_position,
               !.device_state.current_task = "IDLE_MONITORING"]
        /\ threads' = [threads EXCEPT ![t] =
               Worker("_update_available_networks", "reset_simulation",
                      new_position, threads[t].served)]
        /\ call' = Call("reset_simulation", new_position, 0)
        /\ start_position' = new_position
    /\ steps_taken' = 0
    /\ UNCHANGED <<returned, results, device_state, request>>
    /\ UNCHANGED cost_vars

\* _update_available_networks: current_pos = self.device_state.position
HttpUpdateRead(t) ==
    /\ threads[t].pc = "_update_available_networks"
    /\ threads' = [threads EXCEPT
           ![t].pc = "available_networks",
           ![t].current_pos = simulation_engine.device_state.position]
    /\ UNCHANGED <<sim_vars, request>>
    /\ UNCHANGED cost_vars

\* _update_available_networks: the list found for current_pos is assigned.
\* In simulation_step() the method returns and the handler reads
\* step_number, position and current_task into the response, up to the
\* call that reads the value of the task; in reset_simulation() the method
\* returns and print is called
HttpUpdateAssign(t, draws) ==
    /\ threads[t].pc = "available_networks"
    /\ \E noise \in NoisesAt(simulation_engine, threads[t].current_pos, draws.noise) :
        LET after == [simulation_engine EXCEPT
                         !.device_state.available_networks =
                             available_at(simulation_engine,
                                          threads[t].current_pos, noise)]
        IN  /\ simulation_engine' = after
            /\ threads' = [threads EXCEPT ![t] =
                   IF threads[t].handler = "simulation_step"
                   THEN [@ EXCEPT
                            !.pc = "response_data",
                            !.response =
                                [step_number |-> after.simulation_step,
                                 position |-> after.device_state.position,
                                 current_task |-> after.device_state.current_task,
                                 available_networks |-> <<>>]]
                   ELSE [@ EXCEPT !.pc = "get_simulation_stats"]]
    /\ returned' = IF threads[t].handler = "simulation_step"
                   THEN ReturnedDeviceState ELSE ReturnedNone
    /\ UNCHANGED <<call, results, device_state, steps_taken, start_position,
                   request>>
    /\ UNCHANGED cost_vars

\* simulation_step(): the network list of the device state is read into
\* the response
HttpReadNetworks(t) ==
    /\ threads[t].pc = "response_data"
    /\ threads' = [threads EXCEPT
           ![t].pc = "return",
           ![t].response.available_networks =
               simulation_engine.device_state.available_networks]
    /\ UNCHANGED <<sim_vars, request>>
    /\ UNCHANGED cost_vars

\* reset_simulation(): "system_status": simulation_engine.get_simulation_stats()
HttpResetStats(t) ==
    /\ threads[t].pc = "get_simulation_stats"
    /\ threads' = [threads EXCEPT
           ![t].pc = "return",
           ![t].response = get_simulation_stats(simulation_engine)]
    /\ UNCHANGED <<sim_vars, request>>
    /\ UNCHANGED cost_vars

\* the response is sent and the worker is free again
HttpReturn(t) ==
    /\ threads[t].pc = "return"
    /\ threads' = [threads EXCEPT ![t] =
           Worker("idle", "none", <<0, 0>>, threads[t].served + 1)]
    /\ UNCHANGED <<sim_vars, request>>
    /\ UNCHANGED cost_vars

\* the positions posted to /simulation/reset: the default and the one next
\* to the first Wi-Fi router
HttpTargets == {<<0, 0>>, <<100, 100>>}

\* requests to /simulation/step and /simulation/reset, in flight together
HttpNext ==
    \/ Construct(BulkMaps, BulkDraws)
    \/ \E t \in Workers :
        \/ HttpStepCall(t, MaxBulkStep)
        \/ HttpMoveDevice(t)
        \/ HttpAssignState(t, BulkDraws)
        \/ HttpResetCall(t, HttpTargets)
        \/ HttpUpdateRead(t)
        \/ HttpUpdateAssign(t, BulkDraws)
        \/ HttpReadNetworks(t)
        \/ HttpResetStats(t)
        \/ HttpReturn(t)

HttpSpec == Init /\ [][HttpNext]_vars

\* a call of _calculate_qos_by_distance with its arguments and the two
\* values random.random() gives it
CallQos(device_position, base_station_position, network_type, noise) ==
    [op |-> "_calculate_qos_by_distance", position |-> device_position,
     num_steps |-> 0, base_station_position |-> base_station_position,
     network_type |-> network_type, noise |-> noise]

\* the dict _calculate_qos_by_distance returns
ReturnedQos(qos) == [kind |-> "Dict[str, float]", value |-> qos]

\* the network types the function is called with: the three of max_specs
\* and one it does not know
QosTypes == {"Wi-Fi", "5G", "BLE", "LoRa"}

\* the stations of a type (one at the origin for the unknown type)
QosStations(network_type) ==
    IF network_type \in DOMAIN base_stations_table
    THEN {base_stations_table[network_type][i] :
              i \in 1..Len(base_stations_table[network_type])}
    ELSE {<<0, 0>>}

\* where the device is, relative to the station: along an axis every 5 map
\* units, and on three diagonals of whole length (50, 100 and 500)
QosOffsets ==
    {<<5 * k, 0>> : k \in 0..MaxDistanceSteps}
    \cup {<<0, -5 * k>> : k \in 0..MaxDistanceSteps}
    \cup {<<30, 40>>, <<-60, 80>>, <<300, -400>>, <<301, 400>>}

\* the draws of random.random(): both ends and the middle of the noise band
QosDraws == {0, 500, 999}

\* engine._calculate_qos_by_distance(device_position, station_pos, type) on a
\* fresh engine: the function reads and writes no field of the engine, so a
\* second call has nothing to add to the first
CallQosByDistance ==
    /\ call.op = "__init__"
    /\ \E network_type \in QosTypes :
       \E station_pos \in QosStations(network_type), offset \in QosOffsets,
          noise \in QosDraws \X QosDraws :
         LET device_position ==
                 <<station_pos[1] + offset[1], station_pos[2] + offset[2]>>
         IN  /\ call' = CallQos(device_position, station_pos, network_type, noise)
             /\ returned' = ReturnedQos(_calculate_qos_by_distance(
                                device_position, station_pos, network_type, noise))
    /\ UNCHANGED <<simulation_engine, results, device_state, steps_taken,
                   start_position>>
    /\ UNCHANGED cost_vars
    /\ UNCHANGED http_vars

\* engine.run_multiple_steps(num_steps) by a caller that drops the list
RunMultipleDiscarded(max_step, max_num_steps, draws) ==
    /\ call.op # "none"
    /\ \E num_steps \in 0..max_num_steps :
        /\ simulation_engine.simulation_step + num_steps <= max_step
        /\ \E outcome \in run_multiple_steps(simulation_engine, num_steps, draws) :
            simulation_engine' = outcome.self
        /\ call' = Call("run_multiple_steps", <<0, 0>>, num_steps)
        /\ steps_taken' = steps_taken + num_steps
    /\ returned' = ReturnedList
    /\ UNCHANGED <<results, device_state, start_position>>
    /\ UNCHANGED cost_vars
    /\ UNCHANGED http_vars

\* every method that moves the device, on both maps and from all reset
\* positions, up to step MaxSimStep (the draws of the task and of the noise
\* have no part in where the device goes)
MoveNext ==
    \/ Construct(SimMaps, BulkDraws)
    \/ Step(MaxSimStep, BulkDraws)
    \/ RunMultipleDiscarded(MaxSimStep, MaxNumSteps, BulkDraws)
    \/ Reset(SimTargets, BulkDraws)

MoveSpec == Init /\ [][MoveNext]_vars

\* direct calls of the QoS function on a constructed engine
QosNext ==
    \/ Construct(BulkMaps, BulkDraws)
    \/ CallQosByDistance

QosSpec == Init /\ [][QosNext]_vars

----------------------------------------------------------------------------
(* Vocabulary of the properties *)

\* the positions of the candidate list of the current call
Positions == 1..Len(available_networks)

\* candidate i of the current call has a config in the table of the call
Configured(i) == available_networks[i].name \in DOMAIN network_configs

\* the cost of the configured candidate i under the table and task of the call
CostOf(i) ==
    calculate_cost(available_networks[i],
                   network_configs[available_networks[i].name], task).value

\* the candidates of the current call that have a config, in input order
ConfiguredCandidates ==
    SelectSeq(available_networks, LAMBDA n : n.name \in DOMAIN network_configs)

\* the availability gate of calculate_qos_penalty fires for (state, t)
GateFires(state, t) ==
    /\ t \in DOMAIN QOS_REQUIREMENTS
    /\ QOS_REQUIREMENTS[t].must_be_available
    /\ ~state.is_available

\* raw = 50*max(0, min_bandwidth - bandwidth) + 2*max(0, latency - max_latency)
RawPenalty(state, t) ==
    50 * Max(0, QOS_REQUIREMENTS[t].min_bandwidth - state.bandwidth)
    + 2 * Fixed(Max(0, state.latency - QOS_REQUIREMENTS[t].max_latency))

----------------------------------------------------------------------------
(* select_best_network *)

\* C1: when select_best_network returns, it returns a configured candidate
\* of the list together with that candidate's cost; no configured candidate
\* has a strictly lower cost, and no earlier configured candidate has an
\* equal cost (ties keep the first-seen minimum).
C1_FirstMinimalCost ==
    (fn = "select_best_network" /\ result.error = "none") =>
        /\ result.index \in Positions
        /\ Configured(result.index)
        /\ result.network = available_networks[result.index]
        /\ result.cost = CostOf(result.index)
        /\ \A j \in Positions : Configured(j) => CostOf(j) >= result.cost
        /\ \A j \in 1..(result.index - 1) :
              Configured(j) => CostOf(j) # result.cost

\* C1 witness: a costlier candidate comes first, then two different
\* candidates tie on the minimal cost, and the first of the two is returned.
C1_Witness ==
    /\ fn = "select_best_network"
    /\ result.error = "none"
    /\ result.index = 2
    /\ Len(available_networks) = 3
    /\ \A j \in Positions : Configured(j)
    /\ CostOf(1) > result.cost
    /\ CostOf(3) = result.cost
    /\ available_networks[3] # available_networks[2]

\* C2 as claimed: select_best_network fails in exactly two cases, with the
\* empty-candidates error exactly when the list is empty and with the
\* no-match error exactly when the list is non-empty and no candidate has a
\* config; in every other case it returns.
C2_ExactlyTwoFailures ==
    fn = "select_best_network" =>
        /\ result.error \in {"none", "EmptyCandidates", "NoMatch"}
        /\ (result.error = "EmptyCandidates") <=> (Len(available_networks) = 0)
        /\ (result.error = "NoMatch") <=>
              (Len(available_networks) > 0 /\ \A i \in Positions : ~Configured(i))

\* C2 as amended: the empty-candidates error when the list is empty;
\* otherwise the invalid-task error of calculate_cost when some candidate
\* has a config and the task has no weight entry; otherwise the no-match
\* error when no candidate has a config or every configured candidate has
\* an infinite cost; in every other case a candidate and a cost are returned.
C2_FailureCases ==
    fn = "select_best_network" =>
        LET empty == Len(available_networks) = 0
            someConfigured == \E i \in Positions : Configured(i)
            invalidTask == task \notin DOMAIN TASK_WEIGHTS
            allInfinite == \A i \in Positions : Configured(i) => CostOf(i) >= Inf
        IN  result.error =
                IF empty THEN "EmptyCandidates"
                ELSE IF someConfigured /\ invalidTask THEN "InvalidTask"
                ELSE IF ~someConfigured \/ allInfinite THEN "NoMatch"
                ELSE "none"

\* C2 witness: a candidate has a config, the task is of the closed set, and
\* the call still ends in the no-match error (its only cost is infinite).
C2_Witness ==
    /\ fn = "select_best_network"
    /\ task \in TaskState
    /\ \E i \in Positions : Configured(i)
    /\ result.error = "NoMatch"

\* C3: when at least one candidate has a config, the outcome of
\* select_best_network (candidate and cost, or error) is the outcome on the
\* same list with the config-less candidates removed, and a returned
\* candidate has a config.
C3_ConfiglessSkipped ==
    (fn = "select_best_network" /\ \E i \in Positions : Configured(i)) =>
        LET filtered ==
                select_best_network(ConfiguredCandidates, network_configs, task)
        IN  /\ result.error = filtered.error
            /\ result.network = filtered.network
            /\ result.cost = filtered.cost
            /\ result.error = "none" => Configured(result.index)

\* C3 witness: the list starts with a config-less candidate, a later
\* candidate has a config, and the call returns that later candidate.
C3_Witness ==
    /\ fn = "select_best_network"
    /\ Len(available_networks) >= 2
    /\ ~Configured(1)
    /\ result.error = "none"
    /\ result.index > 1

----------------------------------------------------------------------------
(* calculate_qos_penalty *)

\* C4: calculate_qos_penalty returns exactly 1000 whenever the task requires
\* availability and the network's is_available flag is false, whatever the
\* bandwidth and the latency are.
C4_UnavailableIs1000 ==
    (fn = "calculate_qos_penalty" /\ GateFires(network_state, task)) =>
        result.value = Fixed(1000)

\* C4 witness: the gate fires on a network whose bandwidth and latency meet
\* the requirement, and the penalty is 1000.
C4_Witness ==
    /\ fn = "calculate_qos_penalty"
    /\ GateFires(network_state, task)
    /\ RawPenalty(network_state, task) = 0
    /\ result.value = Fixed(1000)

\* C5: the value calculate_qos_penalty returns lies in [0, 500] or is
\* exactly 1000, for every network state and task.
C5_PenaltyRange ==
    fn = "calculate_qos_penalty" =>
        \/ (0 <= result.value /\ result.value <= Fixed(500))
        \/ result.value = Fixed(1000)

\* C5 witness: an available network whose accumulated penalty lies strictly
\* between 500 and 1000 is scored 1000.
C5_Witness ==
    /\ fn = "calculate_qos_penalty"
    /\ task \in TaskState
    /\ network_state.is_available
    /\ RawPenalty(network_state, task) > Fixed(500)
    /\ RawPenalty(network_state, task) < Fixed(1000)
    /\ result.value = Fixed(1000)

----------------------------------------------------------------------------
(* calculate_cost and calculate_energy_cost *)

\* the payload sizes the energy estimate is stated with: 1 KB for
\* idle-monitoring, 50 KB for burst-alert, 1000 KB for streaming
Payload(t) ==
    CASE t = "IDLE_MONITORING"  -> 1
      [] t = "DATA_BURST_ALERT" -> 50
      [] t = "VIDEO_STREAMING"  -> 1000

\* C7: for every task that has a weight entry, calculate_cost returns
\* w_energy(task) * calculate_energy_cost(config, state, task)
\* + w_qos(task) * calculate_qos_penalty(state, task).
C7_WeightedSum ==
    (fn = "calculate_cost" /\ task \in DOMAIN TASK_WEIGHTS) =>
        /\ result.error = "none"
        /\ result.value =
              FloatAdd(
                FloatMul(TASK_WEIGHTS[task].w_energy,
                         calculate_energy_cost(network_config, network_state,
                                               task)),
                TASK_WEIGHTS[task].w_qos
                    * calculate_qos_penalty(network_state, task))

\* C7 witness: a finite cost to which the energy term and a QoS penalty
\* below the clamp both contribute.
C7_Witness ==
    /\ fn = "calculate_cost"
    /\ task \in DOMAIN TASK_WEIGHTS
    /\ result.error = "none"
    /\ result.value < Inf
    /\ calculate_qos_penalty(network_state, task) > 0
    /\ calculate_qos_penalty(network_state, task) < Fixed(500)

\* C8: calculate_cost fails with the invalid-task error whenever the task
\* lacks a weight entry or lacks a QoS-requirement entry; no cost is
\* returned for such a task.
C8_InvalidTaskRejected ==
    (fn = "calculate_cost"
        /\ (task \notin DOMAIN TASK_WEIGHTS
              \/ task \notin DOMAIN QOS_REQUIREMENTS)) =>
        result.error = "InvalidTask"

\* C8 witness: calculate_cost called with a task outside the tables ends in
\* the invalid-task error.
C8_Witness ==
    /\ fn = "calculate_cost"
    /\ task \notin DOMAIN TASK_WEIGHTS
    /\ task \notin DOMAIN QOS_REQUIREMENTS
    /\ result.error = "InvalidTask"

\* C9: calculate_energy_cost returns
\* energy_idle + payload(task) * energy_tx + energy_wakeup with payload 1,
\* 50 and 1000 for the three tasks, and every other network state gives the
\* same energy cost for the same config and task.
C9_EnergyFormula ==
    fn = "calculate_energy_cost" =>
        /\ task \in TaskState =>
              result.value =
                  FloatAdd(FloatAdd(network_config.energy_idle,
                                    FloatMul(Payload(task),
                                             network_config.energy_tx)),
                           network_config.energy_wakeup)
        /\ \A other \in CostStates :
              calculate_energy_cost(network_config, other, task) = result.value

\* C9 witness: a finite energy cost with a non-zero wake-up energy, computed
\* for an unavailable network and the streaming task.
C9_Witness ==
    /\ fn = "calculate_energy_cost"
    /\ task = "VIDEO_STREAMING"
    /\ ~network_state.is_available
    /\ network_config.energy_wakeup > 0
    /\ result.value < Inf
    /\ result.value = network_config.energy_idle
                        + 1000 * network_config.energy_tx
                        + network_config.energy_wakeup

\* C10: calculate_energy_cost and calculate_cost are strictly positive for
\* every valid config, every network state and every task of the closed set.
C10_StrictlyPositive ==
    (fn \in {"calculate_energy_cost", "calculate_cost"}
        /\ ValidNetworkConfig(network_config) /\ task \in TaskState) =>
        /\ result.error = "none"
        /\ result.value > 0

\* C10 witness: the smallest cost of the explored inputs is positive: no
\* wake-up energy, no QoS penalty, the smallest transmit and idle energies.
C10_Witness ==
    /\ fn = "calculate_cost"
    /\ task \in TaskState
    /\ ValidNetworkConfig(network_config)
    /\ network_config.energy_wakeup = 0
    /\ calculate_qos_penalty(network_state, task) = 0
    /\ result.value > 0

----------------------------------------------------------------------------
(* The tables *)

\* C11: every task of the closed TaskState set has an entry in TASK_WEIGHTS
\* whose w_energy + w_qos is 1.0 (10 tenths), and an entry in
\* QOS_REQUIREMENTS with the fields min_bandwidth, max_latency and
\* must_be_available; so no call of calculate_cost on a task of the set is
\* rejected for a missing entry.
C11_TablesComplete ==
    /\ \A t \in TaskState :
        /\ t \in DOMAIN TASK_WEIGHTS
        /\ DOMAIN TASK_WEIGHTS[t] = {"w_energy", "w_qos"}
        /\ TASK_WEIGHTS[t].w_energy + TASK_WEIGHTS[t].w_qos = Fixed(1)
        /\ t \in DOMAIN QOS_REQUIREMENTS
        /\ {"min_bandwidth", "max_latency", "must_be_available"}
               \subseteq DOMAIN QOS_REQUIREMENTS[t]
    /\ (fn = "calculate_cost" /\ task \in TaskState) => result.error = "none"

C11_Witness ==
    /\ fn = "calculate_cost"
    /\ task = "VIDEO_STREAMING"
    /\ result.error = "none"
    /\ TASK_WEIGHTS[task].w_energy + TASK_WEIGHTS[task].w_qos = Fixed(1)
    /\ QOS_REQUIREMENTS[task].must_be_available

----------------------------------------------------------------------------
(* Monotonicity *)

\* state b is at least as good an observation as state a
AtLeastAsGood(b, a) ==
    /\ b.bandwidth >= a.bandwidth
    /\ b.latency <= a.latency
    /\ (a.is_available => b.is_available)

\* C12: for a fixed task (and config), calculate_qos_penalty and
\* calculate_cost are monotone in the network state: a state with at least
\* the bandwidth, at most the latency and at least the availability of the
\* state of the call never has a higher penalty or cost, and a state that is
\* no better in all three never has a lower one -- across the clamp at 500.
C12_Monotone ==
    /\ fn = "calculate_qos_penalty" =>
          \A other \in QosStates :
              /\ AtLeastAsGood(other, network_state) =>
                    calculate_qos_penalty(other, task) <= result.value
              /\ AtLeastAsGood(network_state, other) =>
                    calculate_qos_penalty(other, task) >= result.value
    /\ (fn = "calculate_cost" /\ result.error = "none") =>
          \A other \in CostStates :
              /\ AtLeastAsGood(other, network_state) =>
                    calculate_cost(other, network_config, task).value
                        <= result.value
              /\ AtLeastAsGood(network_state, other) =>
                    calculate_cost(other, network_config, task).value
                        >= result.value

\* a penalty below the clamp, while a state with less bandwidth is clamped
C12_Witness ==
    /\ fn = "calculate_qos_penalty"
    /\ task = "VIDEO_STREAMING"
    /\ network_state.is_available
    /\ result.value > 0
    /\ result.value <= Fixed(500)
    /\ \E other \in QosStates :
        /\ AtLeastAsGood(network_state, other)
        /\ other.is_available
        /\ other.latency = network_state.latency
        /\ calculate_qos_penalty(other, task) = Fixed(1000)

----------------------------------------------------------------------------
(* The decision endpoints *)

\* C18: a decision request with an empty available_networks list is
\* answered with status 400 and without any call of calculate_cost, by
\* POST /decision and by POST /decide alike.
C18_EmptyListIs400 ==
    (fn \in {"make_decision", "decide_network"} /\ available_networks = <<>>) =>
        /\ result.status_code = 400
        /\ result.costs_computed = 0

\* POST /decide has answered a request with an empty list
C18_Witness ==
    /\ fn = "decide_network"
    /\ available_networks = <<>>
    /\ result.status_code = 400

----------------------------------------------------------------------------
(* The simulator *)

\* the device state a caller sees through an object it holds
Observed(object) ==
    IF object.kind = "live" THEN simulation_engine.device_state ELSE object.state

\* the same after the transition
ObservedNext(object) ==
    IF object.kind = "live" THEN simulation_engine'.device_state ELSE object.state

\* the engine without its network list
WithoutNetworks(self) == [self EXCEPT !.device_state.available_networks = <<>>]

\* C13: reset_simulation((x,y)), from any state, leaves the step counter at
\* 0, the task at idle-monitoring and the position at exactly (x,y), also
\* when (x,y) is off the map; map size, network configs and base stations
\* keep their values, and apart from these the only attribute that changes
\* is the network list.
C13_ResetFrame ==
    [][call'.op = "reset_simulation" =>
          /\ simulation_engine'.simulation_step = 0
          /\ simulation_engine'.device_state.position = call'.position
          /\ simulation_engine'.device_state.current_task = "IDLE_MONITORING"
          /\ simulation_engine'.map_size = simulation_engine.map_size
          /\ simulation_engine'.network_configs = simulation_engine.network_configs
          /\ simulation_engine'.base_stations = simulation_engine.base_stations
          /\ WithoutNetworks(simulation_engine') =
                WithoutNetworks(
                    [simulation_engine EXCEPT
                        !.simulation_step = 0,
                        !.device_state.position = call'.position,
                        !.device_state.current_task = "IDLE_MONITORING"])
    ]_vars

\* a reset to a position off the map
C13_Witness ==
    /\ call.op = "reset_simulation"
    /\ call.position = <<-20, 1200>>
    /\ simulation_engine.map_size = <<1000, 1000>>
    /\ simulation_engine.device_state.position = <<-20, 1200>>
    /\ simulation_engine.simulation_step = 0

\* C14: run_multiple_steps(n) runs exactly n steps and returns n snapshots
\* in step order, each one a device state that one step leaves from the
\* state before it and the last one equal to the device state after the
\* call; no later call (a step, a reset, another bulk run, a stats query)
\* changes what a snapshot the caller holds shows.
C14_Snapshots ==
    [][/\ (call'.op = "run_multiple_steps" /\ results = <<>>) =>
            /\ Len(results') = call'.num_steps
            /\ simulation_engine'.simulation_step =
                  simulation_engine.simulation_step + call'.num_steps
            /\ \A i \in 1..Len(results') :
                  LET before ==
                          [simulation_engine EXCEPT
                              !.simulation_step = @ + i - 1,
                              !.device_state =
                                  IF i = 1 THEN simulation_engine.device_state
                                  ELSE ObservedNext(results'[i - 1])]
                  IN  ObservedNext(results'[i]) \in
                          {after.device_state :
                              after \in StepOutcomes(before, BulkDraws)}
            /\ results' # <<>> =>
                  ObservedNext(results'[Len(results')]) =
                      simulation_engine'.device_state
       /\ \A i \in 1..Len(results) :
            /\ i <= Len(results')
            /\ ObservedNext(results'[i]) = Observed(results[i])
    ]_vars

\* two snapshots are held and a later reset has moved the device away
C14_Witness ==
    /\ Len(results) = 2
    /\ call.op = "reset_simulation"
    /\ Observed(results[1]).position # Observed(results[2]).position
    /\ Observed(results[2]).position # simulation_engine.device_state.position

\* C15: the step counter equals the number of steps run since construction
\* or the last reset, whether they were single steps or steps inside
\* run_multiple_steps, and a stats query reports that same number.
C15_CounterCountsSteps ==
    /\ call.op # "none" => simulation_engine.simulation_step = steps_taken
    /\ returned.kind = "Dict" => returned.value.simulation_step = steps_taken

\* the stats after a reset, a bulk run and a single step
C15_Witness ==
    /\ call.op = "get_simulation_stats"
    /\ returned.kind = "Dict"
    /\ returned.value.simulation_step = 3
    /\ start_position = <<-20, 1200>>
    /\ Len(results) = 2

\* C16: right after construction the step counter is 0, the device is at
\* (0,0) with the idle-monitoring task and the network list is the one
\* recomputed for (0,0); in no state of a constructed engine does the list
\* hold the placeholder network "Temp".
C16_Construction ==
    /\ call.op = "__init__" =>
          /\ simulation_engine.simulation_step = 0
          /\ simulation_engine.device_state.position = <<0, 0>>
          /\ simulation_engine.device_state.current_task = "IDLE_MONITORING"
          /\ simulation_engine.device_state.available_networks \in
                {available_at(simulation_engine, <<0, 0>>, noise) :
                    noise \in NoisesAt(simulation_engine, <<0, 0>>, NoiseDraws)}
    /\ call.op # "none" =>
          \A i \in 1..Len(simulation_engine.device_state.available_networks) :
              simulation_engine.device_state.available_networks[i].name # "Temp"

\* a freshly constructed default engine: 5G is the one network at (0,0)
C16_Witness ==
    /\ call.op = "__init__"
    /\ simulation_engine.map_size = <<1000, 1000>>
    /\ Len(simulation_engine.device_state.available_networks) = 1
    /\ simulation_engine.device_state.available_networks[1].name = "5G"

\* C17: on the default 1000x1000 map, after reset_simulation((100,100)) and
\* one run_simulation_step the network list is not empty, whatever was
\* drawn.
C17_NonEmptyNearRouter ==
    (/\ simulation_engine.map_size = <<1000, 1000>>
     /\ start_position = <<100, 100>>
     /\ steps_taken = 1
     /\ call.op = "run_simulation_step")
    => simulation_engine.device_state.available_networks # <<>>

\* that step has been taken: the device is at (110,100), Wi-Fi is listed
C17_Witness ==
    /\ simulation_engine.map_size = <<1000, 1000>>
    /\ start_position = <<100, 100>>
    /\ steps_taken = 1
    /\ call.op = "run_simulation_step"
    /\ simulation_engine.device_state.position = <<110, 100>>
    /\ simulation_engine.device_state.current_task = "VIDEO_STREAMING"
    /\ simulation_engine.device_state.available_networks[1].name = "Wi-Fi"

\* the step that has just been taken moved the device along x
MovedAlongX ==
    /\ simulation_engine'.device_state.position[2] =
          simulation_engine.device_state.position[2]
    /\ simulation_engine'.device_state.position[1] =
          Min(simulation_engine.device_state.position[1] + step_size,
              simulation_engine.map_size[1] - 1)

\* the step that has just been taken moved the device along y
MovedAlongY ==
    /\ simulation_engine'.device_state.position[1] =
          simulation_engine.device_state.position[1]
    /\ simulation_engine'.device_state.position[2] =
          Min(simulation_engine.device_state.position[2] + step_size,
              simulation_engine.map_size[2] - 1)

\* C19: step k (the call that raises the counter to k) leaves y unchanged
\* and sets x to min(x + 10, map_width - 1) for 1 <= k <= 100, and leaves x
\* unchanged and sets y to min(y + 10, map_height - 1) for 101 <= k <= 200.
C19_PhasesOfHundredSteps ==
    [][call'.op = "run_simulation_step" =>
          LET k == simulation_engine'.simulation_step
          IN  /\ (1 <= k /\ k <= 100) => MovedAlongX
              /\ (101 <= k /\ k <= 200) => MovedAlongY
    ]_vars

\* the clamped moves of the random phase from a position
RandomMoves(position, map_size) ==
    {<<Max(0, Min(position[1] + d[1], map_size[1] - 1)),
       Max(0, Min(position[2] + d[2], map_size[2] - 1))>> :
        d \in {<<step_size, 0>>, <<0 - step_size, 0>>,
               <<0, step_size>>, <<0, 0 - step_size>>}}

\* C20: every step k >= 201 moves the device by the step size along one of
\* +x, -x, +y, -y and clamps both coordinates to [0, map_width - 1] x
\* [0, map_height - 1]; there is no other successor position.
C20_RandomPhase ==
    [][(call'.op = "run_simulation_step"
        /\ simulation_engine'.simulation_step >= 201) =>
          simulation_engine'.device_state.position \in
              RandomMoves(simulation_engine.device_state.position,
                          simulation_engine.map_size)
    ]_vars

\* on the small map three moves along -x from x = 24, the last one
\* clamped at 0
C20_Witness ==
    /\ call.op = "run_simulation_step"
    /\ simulation_engine.simulation_step >= 201
    /\ simulation_engine.map_size = <<25, 15>>
    /\ simulation_engine.device_state.position = <<0, 14>>
    /\ steps_taken = simulation_engine.simulation_step

----------------------------------------------------------------------------
(* The network list *)

\* the ranges, peak bandwidths (Mbps) and best latencies (ms) of the types
TypeRange == [n \in {"Wi-Fi", "5G", "BLE"} |->
                 CASE n = "Wi-Fi" -> 100 [] n = "5G" -> 500 [] n = "BLE" -> 50]
TypePeak == [n \in {"Wi-Fi", "5G", "BLE"} |->
                 CASE n = "Wi-Fi" -> 100 [] n = "5G" -> 200 [] n = "BLE" -> 2]
TypeLatency == [n \in {"Wi-Fi", "5G", "BLE"} |->
                 CASE n = "Wi-Fi" -> 5 [] n = "5G" -> 10 [] n = "BLE" -> 20]

\* the stations of the layout as a set, per type
StationsOf(n) ==
    CASE n = "Wi-Fi" -> {<<100, 100>>, <<300, 250>>, <<600, 400>>, <<800, 750>>}
      [] n = "5G"    -> {<<200, 200>>, <<500, 300>>, <<700, 600>>, <<900, 100>>}
      [] n = "BLE"   -> {<<150, 150>>, <<350, 350>>, <<550, 550>>, <<750, 750>>}

\* the nearest station of type n is at most the range of n away
WithinRange(position, n) ==
    \E station \in StationsOf(n) :
        (position[1] - station[1]) * (position[1] - station[1])
        + (position[2] - station[2]) * (position[2] - station[2])
            <= TypeRange[n] * TypeRange[n]

\* the list of the live device state and the names in it
Listed == simulation_engine.device_state.available_networks
ListedNames == {Listed[i].name : i \in 1..Len(Listed)}

\* C21: after every recomputation a network type is in available_networks
\* if and only if its nearest station is at most its maximum range away
\* (Wi-Fi 100, 5G 500, BLE 50); a type out of range is absent, never listed
\* with is_available false.
C21_ListedIffInRange ==
    call.op # "none" =>
        /\ \A n \in {"Wi-Fi", "5G", "BLE"} :
              n \in ListedNames
                  <=> WithinRange(simulation_engine.device_state.position, n)
        /\ ListedNames \subseteq {"Wi-Fi", "5G", "BLE"}
        /\ \A i \in 1..Len(Listed) : Listed[i].is_available

\* the device is at (100,0), exactly 100 from the Wi-Fi router at (100,100):
\* Wi-Fi is listed, BLE (out of range) is not
C21_Witness ==
    /\ call.op = "run_simulation_step"
    /\ simulation_engine.device_state.position = <<100, 0>>
    /\ "Wi-Fi" \in ListedNames
    /\ "BLE" \notin ListedNames

\* C22: every NetworkState of available_networks has is_available true, a
\* bandwidth of at least 0.1 Mbps and a latency of at least 5 ms, so both
\* are strictly positive as the schema demands.
C22_ListedWithinSchema ==
    \A i \in 1..Len(Listed) :
        /\ Listed[i].is_available
        /\ Listed[i].bandwidth >= 1
        /\ Listed[i].latency >= 5

\* on top of the Wi-Fi router with the lowest latency draw: 5 * 0.8 = 4 ms
\* is floored to 5 ms
C22_Witness ==
    /\ call.op = "reset_simulation"
    /\ simulation_engine.device_state.position = <<100, 100>>
    /\ Len(Listed) = 2
    /\ Listed[1].name = "Wi-Fi"
    /\ Listed[1].latency = 5
    /\ Listed[1].bandwidth < Fixed(100)

\* the network names in list order at a position
NamesAt(position) ==
    SelectSeq(<<"Wi-Fi", "5G", "BLE">>, LAMBDA n : WithinRange(position, n))

\* C27: the names in available_networks, in order, are a function of the
\* device position alone: they are the types in range in the order Wi-Fi,
\* 5G, BLE, each once, whatever the noise, the task and the step counter.
C27_NamesByPosition ==
    call.op # "none" =>
        [i \in 1..Len(Listed) |-> Listed[i].name]
            = NamesAt(simulation_engine.device_state.position)

\* at (150,100) all three types are in range (BLE at exactly 50) and the
\* task is not the idle one
C27_Witness ==
    /\ call.op = "run_simulation_step"
    /\ simulation_engine.device_state.position = <<150, 100>>
    /\ simulation_engine.device_state.current_task = "DATA_BURST_ALERT"
    /\ [i \in 1..Len(Listed) |-> Listed[i].name] = <<"Wi-Fi", "5G", "BLE">>

\* C28: on the default map, from construction and without a reset to
\* another position, available_networks is non-empty at construction and
\* after each of the first 199 steps, and 5G is among the networks.
C28_PathCovered ==
    (/\ call.op # "none"
     /\ simulation_engine.map_size = <<1000, 1000>>
     /\ start_position = <<0, 0>>
     /\ steps_taken <= 199)
    => /\ Listed # <<>>
       /\ "5G" \in ListedNames

\* the end of the deterministic path: 199 steps from construction
C28_Witness ==
    /\ call.op = "run_simulation_step"
    /\ simulation_engine.map_size = <<1000, 1000>>
    /\ start_position = <<0, 0>>
    /\ steps_taken = 199
    /\ simulation_engine.device_state.position = <<990, 999>>
    /\ ListedNames = {"5G"}

----------------------------------------------------------------------------
(* The linear interpolation *)

\* the whole distance between the two positions of a call (every explored
\* call in range has one), 0 when there is none
WholeDistance(d2) ==
    IF \E d \in 0..1000 : d * d = d2
    THEN CHOOSE d \in 0..1000 : d * d = d2
    ELSE 0

\* the noise draw for which 0.8 + 0.4 * random.random() is 1.0
NeutralNoise == <<500, 500>>

\* C23: for a type with range R, peak bandwidth P and best latency L and a
\* distance d with 0 <= d <= R, _calculate_qos_by_distance gives, before
\* the noise (observed with the noise factor 1.0), bandwidth
\* P * (1 - 0.9 * d / R) and latency L * (1 + 9 * d / R) (truncated to whole
\* ms as the function does): P and L at d = 0, 0.1 * P and 10 * L at d = R;
\* d = R is in range for every draw, and any d > R is out of range.
C23_Interpolation ==
    (call.op = "_calculate_qos_by_distance"
        /\ call.network_type \in DOMAIN TypeRange) =>
        LET R == TypeRange[call.network_type]
            P == TypePeak[call.network_type]
            L == TypeLatency[call.network_type]
            d2 == DistanceSquared(call.position, call.base_station_position)
            d == WholeDistance(d2)
            qos == returned.value
        IN  /\ d2 > R * R => qos = [bandwidth |-> 0, latency |-> 9999]
            /\ d2 <= R * R => qos.bandwidth > 0 /\ qos.latency < 9999
            /\ (d2 <= R * R /\ d * d = d2 /\ call.noise = NeutralNoise) =>
                /\ qos.bandwidth = (100 * P * (10 * R - 9 * d)) \div (10 * R)
                /\ qos.latency = (L * (R + 9 * d)) \div R
                /\ d = 0 => qos.bandwidth = 100 * P /\ qos.latency = L
                /\ d = R => qos.bandwidth = 10 * P /\ qos.latency = 10 * L

\* a call at exactly the Wi-Fi range, on a diagonal, with neutral noise:
\* 10 Mbps and 50 ms
C23_Witness ==
    /\ call.op = "_calculate_qos_by_distance"
    /\ call.network_type = "Wi-Fi"
    /\ call.base_station_position = <<100, 100>>
    /\ call.position = <<40, 180>>
    /\ call.noise = NeutralNoise
    /\ returned.value = [bandwidth |-> 1000, latency |-> 50]

----------------------------------------------------------------------------
(* The device stays on the map *)

\* the position is one of the map of the engine
OnMap(position) ==
    /\ 0 <= position[1] /\ position[1] <= simulation_engine.map_size[1] - 1
    /\ 0 <= position[2] /\ position[2] <= simulation_engine.map_size[2] - 1

\* C26: after construction and after any sequence of run_simulation_step,
\* run_multiple_steps and reset_simulation calls, if the last reset target
\* (or (0,0) when there was no reset) lies on the map, so does the device:
\* 0 <= x <= map_width - 1 and 0 <= y <= map_height - 1.
C26_StaysOnMap ==
    (call.op # "none" /\ OnMap(start_position)) =>
        OnMap(simulation_engine.device_state.position)

\* run_multiple_steps has taken the device from (20,0) against the east
\* edge of the 25 x 15 map, where the step of 10 is cut to 4
C26_Witness ==
    /\ call.op = "run_multiple_steps"
    /\ call.num_steps = 2
    /\ simulation_engine.map_size = <<25, 15>>
    /\ start_position = <<0, 0>>
    /\ steps_taken = 4
    /\ simulation_engine.device_state.position = <<24, 0>>

----------------------------------------------------------------------------
(* The value run_simulation_step returns *)

\* C29: run_simulation_step returns the engine's live DeviceState, not a
\* copy: whatever calls follow (steps, resets, bulk runs), the value a
\* caller holds from an earlier run_simulation_step shows the position, the
\* task and the network list the engine has now.
C29_LiveReference ==
    device_state # NoDeviceState =>
        Observed(device_state) = simulation_engine.device_state

\* the caller holds the value of a step and a snapshot from
\* run_multiple_steps; after a reset to (-20,1200) the value shows the reset
\* position, the idle task and no network, the snapshot still (10,0)
C29_Witness ==
    /\ device_state # NoDeviceState
    /\ call.op = "reset_simulation"
    /\ Observed(device_state).position = <<-20, 1200>>
    /\ Observed(device_state).current_task = "IDLE_MONITORING"
    /\ Observed(device_state).available_networks = <<>>
    /\ Len(results) >= 1
    /\ Observed(results[1]).position = <<10, 0>>
    /\ Observed(results[1]).available_networks # <<>>

----------------------------------------------------------------------------
(* POST /decision against select_best_network *)

\* C30: for every DeviceState with a non-empty network list, POST /decision
\* reports as optimal_network the name of the network select_best_network
\* returns for the same candidates, the simulator's config table and the
\* same task, with the same cost, also when several candidates share a
\* name or tie on cost.
C30_SameAsSelectBestNetwork ==
    (fn = "make_decision" /\ available_networks # <<>>) =>
        LET best == select_best_network(available_networks,
                                        network_configs_table, task)
        IN  best.error = "none" =>
                /\ result.status_code = 200
                /\ result.network = best.network.name
                /\ result.cost = best.cost

----------------------------------------------------------------------------
(* The status codes of src/api.py *)

\* the name POST /calculate-cost looks the config up under
ConfigName == IF request.network_name # "" THEN request.network_name
              ELSE network_state.name

\* C25: the src/api.py handlers answer bad input with status 400 and not
\* 500: POST /simulation/run with num_steps <= 0 or num_steps > 1000 answers
\* 400 and runs no simulation step, POST /calculate-cost naming an unknown
\* network type answers 400.
C25_BadInputIs400 ==
    /\ (fn = "run_simulation"
            /\ (request.num_steps <= 0 \/ request.num_steps > 1000)) =>
        /\ result.status_code = 400
        /\ result.steps_run = 0
    /\ (fn = "calculate_network_cost"
            /\ ConfigName \notin DOMAIN DEFAULT_NETWORK_CONFIGS) =>
        result.status_code = 400

----------------------------------------------------------------------------
(* Requests in flight together *)

\* the worker is inside a method of the engine
InEngine(t) ==
    threads[t].pc \in {"_move_device", "_generate_random_task",
                       "_update_available_networks", "available_networks"}

\* C24: the HTTP layer serializes its Step and Reset calls on the one
\* engine: with two requests in flight, no worker is inside a method of the
\* engine while another one is, so every response of POST /simulation/step
\* carries the step number, the position, the task and the network list of
\* the post-state of one step: the step number is at least 1 and the list
\* is the one found at the position of the response.
C24_CallsSerialized ==
    /\ \A t, u \in Workers : (InEngine(t) /\ InEngine(u)) => t = u
    /\ \A t \in Workers :
        (threads[t].pc = "return" /\ threads[t].handler = "simulation_step") =>
            LET response == threads[t].response
            IN  /\ response.step_number >= 1
                /\ response.available_networks \in
                       {available_at(simulation_engine, response.position, noise) :
                           noise \in NoisesAt(simulation_engine, response.position,
                                              BulkDraws.noise)}

====
